---- MODULE Spec2Model ----
(***************************************************************************)
(* A model of github-activity-reporter: the GraphQL client, the inbox      *)
(* strategies and renderer, the report strategies and the two report       *)
(* collectors (GraphQL and REST search).                                   *)
(*                                                                         *)
(* Python values are modelled as follows.  None is the record None.  An    *)
(* ISO-8601 string is a record of its textual fields (date as a day        *)
(* number, time of day in seconds, microseconds, zone designator); a       *)
(* datetime is a record with a numeric utcoffset.  A repository name is    *)
(* the sequence of its tokens, "/" being a token of its own.               *)
(***************************************************************************)
EXTENDS Integers, Sequences, FiniteSets, TLC

VARIABLES
    prog,        \* the entry point being executed
    pc,          \* position inside it
    config,      \* the configuration dictionary handed to the strategies
    web,         \* what the remote API answers to each request
    last_run,    \* Strategy.last_run_at (ISO string)
    period,      \* ReportDataStrategy.start_date / end_date
    i,           \* loop index of the running loop
    results,     \* the value being built / returned
    arg,         \* the argument of the function under test
    all_items,   \* run_inbox: the merged list of both strategies
    rendered,    \* Renderer.render: the rows of the table, in order
    state_file,  \* StateManager: the content of the state file
    repo_list,   \* report strategies: list(set(repos)), the list iterated
    report_data, \* the report collectors: the ReportData being built
    pr_commit_shas, \* collect_github_data: SHAs seen in pull requests
    env,         \* the process environment: variables, installed libraries
    exit_code,   \* the exit status of the process ("None" while it runs), or
                 \* the name of the uncaught exception that ended it (the
                 \* interpreter prints the traceback on stderr)
    trace,       \* what the process did to the outside, in order
    token_file,  \* github_oauth: the token file and its permissions
    fetched_at,  \* run_inbox: the instant at which the strategies had fetched
    elapsed,     \* poll_for_token: time.time() - start_time, in seconds
    interval     \* poll_for_token: the polling interval, in seconds

\* what no step of a run changes: the inputs of the run
inputs == <<prog, web, period, arg, env>>
\* the variables of run_inbox outside the strategies
inbox_vars == <<all_items, rendered, state_file, fetched_at>>

\* the variables of the report strategies and collectors
report_vars == <<repo_list, report_data, pr_commit_shas>>

\* the variables of a whole command: its exit, its effects, the token file
proc_vars == <<exit_code, trace, token_file>>

\* the local variables of poll_for_token
poll_vars == <<elapsed, interval>>

vars == <<inputs, config, pc, last_run, i, results, inbox_vars, report_vars, proc_vars,
          poll_vars>>

----------------------------------------------------------------------------
(* Bounds of the model *)

MaxRepos == 2

----------------------------------------------------------------------------
(* Python values *)

None == [py |-> "None"]

\* a function called on its own: no command line, no exit, no file written
NoProcess ==
    /\ env = None /\ exit_code = "None" /\ trace = <<>> /\ token_file = None
    /\ fetched_at = None /\ elapsed = 0 /\ interval = 0

Range(s) == {s[k] : k \in DOMAIN s}

RECURSIVE SeqsUpTo(_, _)
SeqsUpTo(S, n) ==
    IF n = 0 THEN {<<>>}
    ELSE LET shorter == SeqsUpTo(S, n - 1) IN
         shorter \cup {Append(s, x) : s \in {t \in shorter : Len(t) = n - 1}, x \in S}

Count(s, x) == Cardinality({k \in DOMAIN s : s[k] = x})

----------------------------------------------------------------------------
(* Time: dateutil.parser.isoparse and datetime comparison *)

SecPerDay == 24 * 3600

ZoneOffset(zone) ==
    CASE zone = "Z"      -> 0
      [] zone = "+00:00" -> 0
      [] zone = "+02:00" -> 2 * 3600
      [] zone = "-05:00" -> 0 - 5 * 3600

\* parser.isoparse: the fields as written, the zone designator as a utcoffset
isoparse(s) ==
    [date |-> s.date, tod |-> s.tod, us |-> s.us, utcoffset |-> ZoneOffset(s.zone)]

\* datetime.__gt__ on aware datetimes: the instants are compared (Instant:
\* seconds since day 0, 00:00 UTC)
DtGreater(a, b) ==
    LET Instant(dt) == dt.date * SecPerDay + dt.tod - dt.utcoffset IN
    \/ Instant(a) > Instant(b)
    \/ Instant(a) = Instant(b) /\ a.us > b.us

\* datetime.date(): the date fields as they stand, tzinfo ignored
DateOf(dt) == dt.date

Iso(date, tod, us, zone) == [date |-> date, tod |-> tod, us |-> us, zone |-> zone]

----------------------------------------------------------------------------
(* Repository names *)

\* str.split("/")
RECURSIVE split(_)
split(s) ==
    IF s = <<>> THEN << <<>> >>
    ELSE LET rest == split(Tail(s)) IN
         IF Head(s) = "/" THEN << <<>> >> \o rest
         ELSE << <<Head(s)>> \o Head(rest) >> \o Tail(rest)

RepoW == <<"acme", "/", "widgets">>
RepoG == <<"acme", "/", "gadgets">>
NoSlash == <<"acme">>

----------------------------------------------------------------------------
(* GitHubClient.execute.  An HTTP outcome is what requests.post meets:     *)
(* exc is the exception it raises ("" when a response arrives), status the *)
(* status code, has_errors / has_data tell which keys the JSON body has,   *)
(* data is the value under "data".                                         *)

Outcome(exc, status, has_errors, has_data, data) ==
    [exc |-> exc, status |-> status, has_errors |-> has_errors,
     has_data |-> has_data, data |-> data]

\* except requests.exceptions.RequestException: the classes it covers
CaughtConnectionErrorOnly(exc) == exc = "ConnectionError"
IsRequestException(exc) == exc \in {"ConnectionError", "Timeout", "HTTPError"}

\* the body of the try block: what it raises ("" for nothing) and returns
execute_try(resp) ==
    IF resp.exc # "" THEN [raised |-> resp.exc, value |-> None]
    ELSE IF resp.status >= 400 /\ resp.status < 600
         THEN [raised |-> "HTTPError", value |-> None]
    ELSE IF resp.has_errors THEN [raised |-> "", value |-> None]
    ELSE [raised |-> "", value |-> IF resp.has_data THEN resp.data ELSE None]

execute(resp) ==
    LET r == execute_try(resp) IN
    IF r.raised # "" /\ IsRequestException(r.raised)
    THEN [raised |-> "", value |-> None]
    ELSE r

----------------------------------------------------------------------------
(* Strategy._is_new and FullWatchStrategy.run *)

Node(url, repo, updatedAt, reviews) ==
    [url |-> url, repo |-> repo, updatedAt |-> updatedAt, reviews |-> reviews,
     type |-> ""]

Tag(node, type) == [node EXCEPT !.type = type]

\* the answer of the API to the repository query of owner/name
RepoOutcome(owner, name) ==
    IF <<owner, name>> \in DOMAIN web.repo THEN web.repo[<<owner, name>>]
    ELSE Outcome("", 200, TRUE, TRUE, None)

_is_new_or_equal(item_date_str) ==
    ~ DtGreater(isoparse(last_run), isoparse(item_date_str))
_is_new(item_date_str) == DtGreater(isoparse(item_date_str), isoparse(last_run))

RECURSIVE TagNew(_, _)
TagNew(nodes, type) ==
    IF nodes = <<>> THEN <<>>
    ELSE (IF _is_new(Head(nodes).updatedAt) THEN <<Tag(Head(nodes), type)>> ELSE <<>>)
         \o TagNew(Tail(nodes), type)

TagAllAsIssue(kind) == "Issue"
TypeTag(kind) ==
    CASE kind = "issues"       -> "Issue"
      [] kind = "pullRequests" -> "PR"
      [] kind = "discussions"  -> "Discussion"

\* one iteration of the loop over repos
FullWatchIter(res, repo_fullname) ==
    LET parts == split(repo_fullname) IN
    IF Len(parts) # 2 THEN res
    ELSE LET data == execute(RepoOutcome(parts[1], parts[2])).value IN
         IF data = None \/ ~ data.has_repository THEN res
         ELSE res \o TagNew(data.issues, TypeTag("issues"))
                  \o TagNew(data.pullRequests, TypeTag("pullRequests"))
                  \o TagNew(data.discussions, TypeTag("discussions"))

RECURSIVE FullWatchLoop(_, _)
FullWatchLoop(repos, res) ==
    IF repos = <<>> THEN res
    ELSE FullWatchLoop(Tail(repos), FullWatchIter(res, Head(repos)))

\* FullWatchStrategy.run as a function of the configured list
FullWatchRun(repos) == IF repos = <<>> THEN <<>> ELSE FullWatchLoop(repos, <<>>)

----------------------------------------------------------------------------
(* The inputs the strategies are run on *)

\* watermarks: as StateManager writes them (isoformat, with and without
\* microseconds) and the same instant written with another offset
Watermarks ==
    {Iso(2, 12 * 3600, 0, "+00:00"), Iso(2, 12 * 3600, 250000, "+00:00"),
     Iso(2, 14 * 3600, 0, "+02:00")}

\* updatedAt values as the API sends them: one second before, at, and one
\* second after the watermark instant 12:00:00Z of day 2
ItemTimes ==
    {Iso(2, 12 * 3600 - 1, 0, "Z"), Iso(2, 12 * 3600, 0, "Z"),
     Iso(2, 12 * 3600 + 1, 0, "Z")}

RepoPayload(issues, pullRequests, discussions) ==
    [has_repository |-> TRUE, issues |-> issues, pullRequests |-> pullRequests,
     discussions |-> discussions]

\* a data object without the "repository" key
EmptyPayload ==
    [has_repository |-> FALSE, issues |-> <<>>, pullRequests |-> <<>>,
     discussions |-> <<>>]

PayloadsW ==
    {RepoPayload(<<Node("w1", RepoW, t1, FALSE), Node("w2", RepoW, t2, FALSE)>>,
                 <<Node("w3", RepoW, t3, TRUE)>>, <<>>) : t1, t2, t3 \in ItemTimes}

PayloadsG ==
    {RepoPayload(<<>>, <<>>, <<Node("g1", RepoG, t, FALSE)>>) : t \in ItemTimes}

\* every way a request can end: the failures of the transport, of the
\* status, of GraphQL (errors beside data), and the successes
OutcomesOf(payloads) ==
    {Outcome("Timeout", 0, FALSE, FALSE, None),
     Outcome("ConnectionError", 0, FALSE, FALSE, None),
     Outcome("", 502, FALSE, FALSE, None),
     Outcome("", 200, TRUE, FALSE, None),
     Outcome("", 200, FALSE, FALSE, None),
     Outcome("", 200, FALSE, TRUE, EmptyPayload)}
    \cup {Outcome("", 200, TRUE, TRUE, p) : p \in {CHOOSE q \in payloads : TRUE}}
    \cup {Outcome("", 200, FALSE, TRUE, p) : p \in payloads}

KeyOf(repo_fullname) == <<split(repo_fullname)[1], split(repo_fullname)[2]>>

RepoEntries == {RepoW, RepoG, NoSlash, <<"acme", "/", "widgets", "/", "x">>}

NoPeriod == [start_date |-> None, end_date |-> None]

----------------------------------------------------------------------------
(* FullWatchStrategy.run, one loop iteration per step *)

InitFullWatch ==
    /\ prog = "FullWatchStrategy.run"
    /\ pc = "start"
    /\ config \in {[watch_all |-> wa, watch_mentions |-> <<>>, username |-> "alice"] :
                      wa \in SeqsUpTo(RepoEntries, MaxRepos)}
    /\ web \in {[repo |-> (KeyOf(RepoW) :> ow) @@ (KeyOf(RepoG) :> og)] :
                   ow \in OutcomesOf(PayloadsW), og \in OutcomesOf(PayloadsG)}
    /\ last_run \in Watermarks
    /\ period = NoPeriod
    /\ i = 0
    /\ results = <<>>
    /\ arg = None
    /\ all_items = <<>> /\ rendered = <<>> /\ state_file = None
    /\ repo_list = <<>> /\ report_data = None /\ pr_commit_shas = {}
    /\ NoProcess

FW_Begin ==
    /\ prog = "FullWatchStrategy.run" /\ pc = "start"
    /\ results' = <<>>
    /\ IF config.watch_all = <<>>
       THEN pc' = "done" /\ i' = i
       ELSE pc' = "loop" /\ i' = 1
    /\ UNCHANGED <<inputs, poll_vars, proc_vars, config, last_run, inbox_vars, report_vars>>

FW_Iter ==
    /\ prog = "FullWatchStrategy.run" /\ pc = "loop"
    /\ i <= Len(config.watch_all)
    /\ results' = FullWatchIter(results, config.watch_all[i])
    /\ i' = i + 1
    /\ UNCHANGED <<inputs, poll_vars, proc_vars, config, pc, last_run, inbox_vars, report_vars>>

FW_Return ==
    /\ prog = "FullWatchStrategy.run" /\ pc = "loop"
    /\ i > Len(config.watch_all)
    /\ pc' = "done"
    /\ UNCHANGED <<inputs, poll_vars, proc_vars, config, last_run, i, results, inbox_vars, report_vars>>

NextFullWatch == FW_Begin \/ FW_Iter \/ FW_Return

SpecFullWatch == InitFullWatch /\ [][NextFullWatch]_vars

----------------------------------------------------------------------------
(* Properties of FullWatchStrategy.run *)

\* the instant of an ISO string in UTC: whole seconds and microseconds
UtcSeconds(s) == s.date * SecPerDay + s.tod - ZoneOffset(s.zone)
SameInstant(a, b) == UtcSeconds(a) = UtcSeconds(b) /\ a.us = b.us
OneSecondAfter(a, b) == UtcSeconds(a) = UtcSeconds(b) + 1 /\ a.us = b.us
StrictlyAfter(a, b) ==
    \/ UtcSeconds(a) > UtcSeconds(b)
    \/ UtcSeconds(a) = UtcSeconds(b) /\ a.us > b.us

WellFormed(repo_fullname) == Len(split(repo_fullname)) = 2

\* the request for this entry was answered with a data object that holds a
\* repository and with no errors
Fetched(repo_fullname) ==
    /\ WellFormed(repo_fullname)
    /\ KeyOf(repo_fullname) \in DOMAIN web.repo
    /\ LET o == web.repo[KeyOf(repo_fullname)] IN
       /\ o.exc = "" /\ o.status = 200 /\ ~ o.has_errors /\ o.has_data
       /\ o.data.has_repository

ListKinds == {"issues", "pullRequests", "discussions"}

ListOf(repo_fullname, kind) ==
    LET d == web.repo[KeyOf(repo_fullname)].data IN
    CASE kind = "issues"       -> d.issues
      [] kind = "pullRequests" -> d.pullRequests
      [] kind = "discussions"  -> d.discussions

KindTag(kind) ==
    CASE kind = "issues"       -> "Issue"
      [] kind = "pullRequests" -> "PR"
      [] kind = "discussions"  -> "Discussion"

\* the nodes FullWatchStrategy has fetched: (entry index, kind, node)
FetchedNodes ==
    {<<j, kind, n>> \in (DOMAIN config.watch_all) \X ListKinds \X
                        UNION {Range(ListOf(r, k)) :
                                  r \in {e \in Range(config.watch_all) : Fetched(e)},
                                  k \in ListKinds} :
        /\ Fetched(config.watch_all[j])
        /\ n \in Range(ListOf(config.watch_all[j], kind))}

FullWatchDone == prog = "FullWatchStrategy.run" /\ pc = "done"

\* C2: with watermark T, a fetched item whose updatedAt is exactly T is not
\* in the result of the incremental strategy, and a fetched item whose
\* updatedAt is T plus one second is in it (strictly greater than T).
C2_StrictlyGreaterThanWatermark ==
    FullWatchDone =>
        \A f \in FetchedNodes :
            /\ SameInstant(f[3].updatedAt, last_run) =>
                   \A k \in DOMAIN results : results[k].url # f[3].url
            /\ OneSecondAfter(f[3].updatedAt, last_run) =>
                   \E k \in DOMAIN results : results[k].url = f[3].url

\* C2 witness: a run that fetched an item stamped exactly T and left it
\* out, and an item stamped T + 1s and returned it
C2_Witness ==
    /\ FullWatchDone
    /\ \E f, g \in FetchedNodes :
        /\ SameInstant(f[3].updatedAt, last_run)
        /\ \A k \in DOMAIN results : results[k].url # f[3].url
        /\ OneSecondAfter(g[3].updatedAt, last_run)
        /\ \E k \in DOMAIN results : results[k].url = g[3].url

\* every returned item is a fetched node updated after the watermark and
\* carries the tag of the list it came from
OnlyFetchedAndNew ==
    \A k \in DOMAIN results :
        \E f \in FetchedNodes :
            /\ results[k] = Tag(f[3], KindTag(f[2]))
            /\ StrictlyAfter(f[3].updatedAt, last_run)

\* the number of times the repository of a fetched node is listed
TimesListed(repo_fullname) ==
    Cardinality({j \in DOMAIN config.watch_all : config.watch_all[j] = repo_fullname})

----------------------------------------------------------------------------
(* GitHubClient.execute on every outcome of the request *)

InitClient ==
    /\ prog = "GitHubClient.execute"
    /\ pc = "call"
    /\ arg \in UNION {OutcomesOf(ps) : ps \in {PayloadsW, PayloadsG}}
               \cup {Outcome("", st, e, d, IF d THEN EmptyPayload ELSE None) :
                        st \in {401, 403, 404, 500}, e \in BOOLEAN, d \in BOOLEAN}
               \cup {Outcome("", 200, TRUE, TRUE, p) : p \in PayloadsW \cup PayloadsG}
    /\ config = [watch_all |-> <<>>, watch_mentions |-> <<>>, username |-> "alice"]
    /\ web = [repo |-> <<>>]
    /\ last_run = None
    /\ period = NoPeriod
    /\ i = 0
    /\ results = <<>>
    /\ all_items = <<>> /\ rendered = <<>> /\ state_file = None
    /\ repo_list = <<>> /\ report_data = None /\ pr_commit_shas = {}
    /\ NoProcess

Client_Execute ==
    /\ prog = "GitHubClient.execute" /\ pc = "call"
    /\ results' = execute(arg)
    /\ pc' = IF results'.raised # "" THEN "raised" ELSE "returned"
    /\ UNCHANGED <<inputs, poll_vars, proc_vars, config, last_run, i, inbox_vars, report_vars>>

SpecClient == InitClient /\ [][Client_Execute]_vars

\* the request failed: transport exception, a status outside 2xx, or a body
\* with an errors array
RequestFailed(o) ==
    o.exc # "" \/ ~ (o.status >= 200 /\ o.status < 300) \/ o.has_errors

----------------------------------------------------------------------------
(* ReportDataStrategy._is_in_period *)

MaxDay == 3

Days == 1..MaxDay

\* "not created_at": None and the empty string
EmptyStr == [py |-> "''"]

PeriodStamps ==
    {Iso(d, t, 0, z) : d \in Days, t \in {0, 12 * 3600, SecPerDay - 1},
                       z \in {"Z", "+02:00", "-05:00"}}

\* a 'YYYY-MM-DD' string, and datetime.strptime(s, '%Y-%m-%d').date();
\* dates are day numbers
DateStr(day) == [ymd |-> day]
strptime_date(s) == s.ymd

ExclusiveEnd(created_at) ==
    IF created_at = None \/ created_at = EmptyStr THEN FALSE
    ELSE LET dt == DateOf(isoparse(created_at)) IN
         strptime_date(period.start_date) <= dt /\ dt < strptime_date(period.end_date)
_is_in_period(created_at) ==
    IF created_at = None \/ created_at = EmptyStr THEN FALSE
    ELSE LET dt == DateOf(isoparse(created_at))
             start_dt == strptime_date(period.start_date)
             end_dt == strptime_date(period.end_date)
         IN  start_dt <= dt /\ dt <= end_dt

InitPeriod ==
    /\ prog = "_is_in_period"
    /\ pc = "call"
    /\ arg \in PeriodStamps \cup {None, EmptyStr}
    /\ period \in {[start_date |-> DateStr(a), end_date |-> DateStr(b)] : a, b \in Days}
    /\ config = [watch_all |-> <<>>, watch_mentions |-> <<>>, username |-> "alice"]
    /\ web = [repo |-> <<>>]
    /\ last_run = None
    /\ i = 0
    /\ results = FALSE
    /\ all_items = <<>> /\ rendered = <<>> /\ state_file = None
    /\ repo_list = <<>> /\ report_data = None /\ pr_commit_shas = {}
    /\ NoProcess

Period_Call ==
    /\ prog = "_is_in_period" /\ pc = "call"
    /\ results' = _is_in_period(arg)
    /\ pc' = "returned"
    /\ UNCHANGED <<inputs, poll_vars, proc_vars, config, last_run, i, inbox_vars, report_vars>>

SpecPeriod == InitPeriod /\ [][Period_Call]_vars

PeriodReturned == prog = "_is_in_period" /\ pc = "returned"

IsStamp(x) == x \in PeriodStamps

\* C4: _is_in_period is true exactly when the calendar date d written in the
\* timestamp satisfies start_date <= d <= end_date, whatever the time of day;
\* an absent timestamp is outside.
C4_InclusiveCalendarDates ==
    PeriodReturned =>
        results = (/\ IsStamp(arg)
                   /\ period.start_date.ymd <= arg.date
                   /\ arg.date <= period.end_date.ymd)

\* C4 witness: 23:59:59 on end_date is inside, and so is 00:00:00 on
\* start_date (two states; this one is the end boundary)
C4_Witness ==
    /\ PeriodReturned
    /\ IsStamp(arg) /\ arg.tod = SecPerDay - 1 /\ arg.zone = "Z"
    /\ arg.date = period.end_date.ymd /\ period.start_date.ymd < period.end_date.ymd
    /\ results = TRUE

\* the calendar date in UTC of the instant an ISO string denotes
UtcDate(s) == UtcSeconds(s) \div SecPerDay

\* C5: _is_in_period tests the UTC calendar date of the stamped instant, so
\* two timestamps of the same instant with different offsets get the same
\* answer.
C5_UtcCalendarDate ==
    PeriodReturned =>
        results = (/\ IsStamp(arg)
                   /\ period.start_date.ymd <= UtcDate(arg)
                   /\ UtcDate(arg) <= period.end_date.ymd)

----------------------------------------------------------------------------
(* MentionWatchStrategy.run.  The search is answered by the server from    *)
(* its items: it keeps those of the repositories the query names that were *)
(* updated after the date of the query ("updated:>").  What it does with a *)
(* repo: qualifier that names no repository is its own business: it        *)
(* ignores the qualifier or rejects the query.                             *)

\* the answer of the API to a search request (the repo: qualifiers, the
\* user and the date of its search_str)
SearchOutcome(req) ==
    LET srv == web.search
        SearchPayload(nodes) == [has_search |-> TRUE, nodes |-> nodes]
    IN
    IF srv.fail = "Timeout" THEN Outcome("Timeout", 0, FALSE, FALSE, None)
    ELSE IF srv.fail = "502" THEN Outcome("", 502, FALSE, FALSE, None)
    ELSE IF srv.fail = "errors" THEN Outcome("", 200, TRUE, TRUE, SearchPayload(<<>>))
    ELSE IF srv.bad_qualifier = "reject"
            /\ \E k \in DOMAIN req.repos : Len(split(req.repos[k])) # 2
         THEN Outcome("", 200, TRUE, FALSE, None)
    ELSE Outcome("", 200, FALSE, TRUE,
                 SearchPayload(SelectSeq(srv.items,
                     LAMBDA n : /\ n.repo \in Range(req.repos)
                                /\ DtGreater(isoparse(n.updatedAt),
                                             isoparse(req.updated_after)))))

\* a loop that appends nothing
DropSearchNodes(nodes) == <<>>

\* the loop over data["search"]["nodes"]: a node with a reviews key is a PR
TagSearchNodes(nodes) ==
    [k \in DOMAIN nodes |-> Tag(nodes[k], IF nodes[k].reviews THEN "PR" ELSE "Issue")]

\* "not username": None and the empty string
NoUsername(username) == username = "None" \/ username = ""

\* date_str is last_run_dt.strftime("%Y-%m-%dT%H:%M:%SZ"): the fields of the
\* datetime as they stand, whole seconds, and a literal Z
MentionRun(repos, username) ==
    IF repos = <<>> \/ NoUsername(username) THEN <<>>
    ELSE LET strftime_Z(dt) == Iso(dt.date, dt.tod, 0, "Z")
             search_str == [repos |-> repos, username |-> username,
                            updated_after |-> strftime_Z(isoparse(last_run))]
             data == execute(SearchOutcome(search_str)).value IN
         IF data # None /\ data.has_search THEN TagSearchNodes(data.nodes) ELSE <<>>

\* a client that sends every request a second time
RequestsTwice(n) == [k \in 1..(2 * n) |-> "request"]

\* the requests a strategy sends, as entries of the trace
Requests(n) == [k \in 1..n |-> "request"]

\* the search server holds items that mention or are authored by the user
InitMention ==
    /\ prog = "MentionWatchStrategy.run"
    /\ pc = "start"
    /\ config \in {[watch_all |-> <<>>, watch_mentions |-> wm, username |-> u] :
                      wm \in SeqsUpTo(RepoEntries, MaxRepos), u \in {"alice", "None"}}
    /\ web \in {[repo |-> <<>>,
                 search |-> [fail |-> f, bad_qualifier |-> b,
                             items |-> <<Node("w1", RepoW, t1, FALSE),
                                         Node("w3", RepoW, t2, TRUE),
                                         Node("g3", RepoG, t3, FALSE)>>]] :
                   f \in {"", "Timeout", "502", "errors"}, b \in {"reject", "ignore"},
                   t1, t2, t3 \in ItemTimes}
    /\ last_run \in Watermarks \cup {Iso(2, 7 * 3600, 0, "-05:00")}
    /\ period = NoPeriod
    /\ i = 0
    /\ results = <<>>
    /\ arg = None
    /\ all_items = <<>> /\ rendered = <<>> /\ state_file = None
    /\ repo_list = <<>> /\ report_data = None /\ pr_commit_shas = {}
    /\ NoProcess

\* the whole of run(): the early return, or one client.execute and the loop
\* over its nodes
Mention_Run ==
    /\ prog = "MentionWatchStrategy.run" /\ pc = "start"
    /\ results' = MentionRun(config.watch_mentions, config.username)
    /\ trace' = trace \o Requests(IF config.watch_mentions = <<>>
                                     \/ NoUsername(config.username) THEN 0 ELSE 1)
    /\ pc' = "done"
    /\ UNCHANGED <<inputs, poll_vars, exit_code, token_file, config, last_run, i, inbox_vars,
                   report_vars>>

----------------------------------------------------------------------------
(* Renderer.render: deduplication by url, then sorted() by repository name *)
(* and updatedAt, both compared as text                                    *)

\* str.__lt__ on repository names; TokenRank is the order of str on their
\* tokens ("/" sorts first)
RECURSIVE StrLess(_, _)
StrLess(a, b) ==
    LET TokenRank(t) ==
            CASE t = "/"       -> 0
              [] t = "a"       -> 1
              [] t = "acme"    -> 2
              [] t = "gadgets" -> 3
              [] t = "widgets" -> 4
              [] t = "x"       -> 5
    IN
    IF b = <<>> THEN FALSE
    ELSE IF a = <<>> THEN TRUE
    ELSE IF Head(a) = Head(b) THEN StrLess(Tail(a), Tail(b))
    ELSE TokenRank(Head(a)) < TokenRank(Head(b))

\* str.__lt__ on two ISO strings of the same layout; SuffixRank is the rank
\* of the character that follows the seconds in the text
IsoTextLess(a, b) ==
    LET SuffixRank(s) ==
            IF s.us # 0 THEN 2
            ELSE CASE s.zone = "Z" -> 3 [] s.zone = "+00:00" -> 0
                   [] s.zone = "+02:00" -> 0 [] s.zone = "-05:00" -> 1
    IN
    \/ a.date < b.date
    \/ a.date = b.date /\ a.tod < b.tod
    \/ a.date = b.date /\ a.tod = b.tod /\ SuffixRank(a) < SuffixRank(b)
    \/ a.date = b.date /\ a.tod = b.tod /\ SuffixRank(a) = SuffixRank(b) /\ a.us < b.us

\* a comparison that holds for equal keys as well
KeyNotGreater(x, y) ==
    ~ (\/ StrLess(y.repo, x.repo)
       \/ y.repo = x.repo /\ IsoTextLess(y.updatedAt, x.updatedAt))

\* the sort key (nameWithOwner, updatedAt), compared as a tuple
KeyLess(x, y) ==
    \/ StrLess(x.repo, y.repo)
    \/ x.repo = y.repo /\ IsoTextLess(x.updatedAt, y.updatedAt)

\* a dict that keeps the value of the first insertion of a key
RECURSIVE DictKeepFirst(_, _)
DictKeepFirst(d, item) ==
    IF d = <<>> THEN <<item>>
    ELSE IF Head(d).url = item.url THEN d
    ELSE <<Head(d)>> \o DictKeepFirst(Tail(d), item)

\* {item['url']: item for item in items}: a dict keeps the place of the
\* first insertion of a key and the value of the last
RECURSIVE DictPut(_, _)
DictPut(d, item) ==
    IF d = <<>> THEN <<item>>
    ELSE IF Head(d).url = item.url THEN <<item>> \o Tail(d)
    ELSE <<Head(d)>> \o DictPut(Tail(d), item)

RECURSIVE DictOf(_, _)
DictOf(items, d) ==
    IF items = <<>> THEN d ELSE DictOf(Tail(items), DictPut(d, Head(items)))

KeepEveryItem(items) == items
unique_items(items) == DictOf(items, <<>>)

\* sorted(): stable, ascending
RECURSIVE InsertSorted(_, _)
InsertSorted(srt, x) ==
    IF srt = <<>> THEN <<x>>
    ELSE IF KeyLess(x, Head(srt)) THEN <<x>> \o srt
    ELSE <<Head(srt)>> \o InsertSorted(Tail(srt), x)

RECURSIVE SortFrom(_, _)
SortFrom(items, srt) ==
    IF items = <<>> THEN srt ELSE SortFrom(Tail(items), InsertSorted(srt, Head(items)))

\* the item rows of the table, in order (no table when there are no items)
Render(items) == IF items = <<>> THEN <<>> ELSE SortFrom(unique_items(items), <<>>)

----------------------------------------------------------------------------
(* run_inbox *)

\* a token that is always taken as set
TokenAlwaysSet(token) == FALSE

\* "if not self.token" / "if not token": unset or empty
NoToken(token) == token \in {"", "None"}

\* the environment of a command: GITHUB_TOKEN and the Gemini key ("None"
\* when unset), whether google.genai imports and how it behaves, the
\* platform and the umask of the process
BaseEnv ==
    [GITHUB_TOKEN |-> "tok", GEMINI_API_KEY |-> "None", GENAI_AVAILABLE |-> FALSE,
     genai |-> "text", os_name |-> "posix", umask |-> 18]

\* datetime.now(timezone.utc).isoformat()
Clock == {Iso(3, 9 * 3600, 123456, "+00:00"), Iso(3, 9 * 3600 + 5, 0, "+00:00")}

\* json.dump({"last_run": ...}): the file holds a JSON object with the key
StateJson(last) == [kind |-> "object", has_last_run |-> TRUE, last_run |-> last]

\* StateManager.get_last_run on a state file that is missing, cannot be
\* opened, holds no JSON, holds a JSON object (with the key or without), or
\* holds another JSON value: what it raises and what it returns
get_last_run(file, now) ==
    LET default == [raised |-> "",
                    value |-> Iso(now.date - 1, now.tod, now.us, "+00:00")] IN
    CASE file.kind = "missing"      -> default
      [] file.kind = "unreadable"   -> default
      [] file.kind = "invalid_json" -> default
      [] file.kind = "object"       ->
            [raised |-> "",
             value |-> IF file.has_last_run THEN file.last_run ELSE None]
      [] file.kind = "array"        -> [raised |-> "AttributeError", value |-> None]

\* InboxWebs is the server: one database of items behind the repository
\* query and the search, and the way each request ends; the item w1 may be
\* updated again (t5) between the repository request and the search
InitInbox ==
    LET InboxWebs ==
            {[repo |-> (KeyOf(RepoW) :>
                           IF rf = "" THEN
                              Outcome("", 200, FALSE, TRUE,
                                      RepoPayload(<<Node("w1", RepoW, t1, FALSE),
                                                    Node("w2", RepoW, t2, FALSE)>>,
                                                  <<Node("w3", RepoW, t3, TRUE)>>, <<>>))
                           ELSE IF rf = "Timeout" THEN Outcome("Timeout", 0, FALSE, FALSE, None)
                           ELSE Outcome("", 200, TRUE, FALSE, None)),
              search |-> [fail |-> sf, bad_qualifier |-> "ignore",
                          items |-> <<Node("w1", RepoW,
                                           IF t5 = "later" THEN Iso(2, 12 * 3600 + 2, 0, "Z")
                                           ELSE t1, FALSE),
                                      Node("w3", RepoW, t3, TRUE),
                                      Node("g3", RepoG, t4, FALSE)>>]] :
                rf \in {"", "Timeout", "errors"}, sf \in {"", "Timeout"},
                t1, t2, t3, t4 \in {Iso(2, 12 * 3600, 0, "Z"), Iso(2, 12 * 3600 + 1, 0, "Z")},
                t5 \in {"same", "later"}}
    IN
    /\ prog = "run_inbox"
    /\ pc = "setup"
    /\ config \in {[watch_all |-> wa, watch_mentions |-> wm, username |-> u] :
                      wa \in SeqsUpTo({RepoW, NoSlash}, MaxRepos),
                      wm \in SeqsUpTo({RepoW, RepoG}, MaxRepos),
                      u \in {"alice", "None"}}
    /\ \/ /\ web \in InboxWebs
          /\ env = BaseEnv
          /\ state_file \in {StateJson(Iso(2, 12 * 3600, 0, "+00:00")),
                             StateJson(Iso(2, 12 * 3600, 250000, "+00:00"))}
       \/ /\ web \in {w \in InboxWebs :
                        \A k \in DOMAIN w.search.items :
                           w.search.items[k].updatedAt = Iso(2, 12 * 3600 + 1, 0, "Z")}
          /\ env \in {[BaseEnv EXCEPT !.GITHUB_TOKEN = t] : t \in {"tok", "", "None"}}
          /\ state_file \in {[kind |-> "missing"], [kind |-> "unreadable"],
                             [kind |-> "invalid_json"], [kind |-> "array"],
                             [kind |-> "object", has_last_run |-> FALSE],
                             StateJson(Iso(2, 12 * 3600, 0, "+00:00"))}
    /\ last_run = None
    /\ period = NoPeriod
    /\ i = 0
    /\ results = <<>>
    /\ arg = None
    /\ all_items = <<>> /\ rendered = <<>>
    /\ repo_list = <<>> /\ report_data = None /\ pr_commit_shas = {}
    /\ exit_code = "None" /\ trace = <<>> /\ token_file = None
    /\ fetched_at = None /\ elapsed = 0 /\ interval = 0

\* config = load_config(); StateManager(); client = GitHubClient(); Renderer():
\* without a token the client prints to stderr and calls sys.exit(1)
Inbox_Setup ==
    /\ prog = "run_inbox" /\ pc = "setup"
    /\ IF NoToken(env.GITHUB_TOKEN)
       THEN pc' = "exited" /\ exit_code' = "1" /\ trace' = Append(trace, "stderr")
       ELSE pc' = "get_last_run" /\ exit_code' = exit_code /\ trace' = trace
    /\ UNCHANGED <<inputs, poll_vars, config, last_run, i, results, inbox_vars, report_vars,
                   token_file>>

\* last_run = state_manager.get_last_run(); all_items = []
Inbox_GetLastRun ==
    /\ prog = "run_inbox" /\ pc = "get_last_run"
    /\ \E now \in Clock :
          LET r == get_last_run(state_file, now) IN
          /\ last_run' = r.value
          /\ IF r.raised # ""
             THEN /\ pc' = "exited" /\ exit_code' = r.raised
                  /\ trace' = trace \o <<"read_state", "stderr">>
             ELSE /\ pc' = "strategy_a" /\ exit_code' = exit_code
                  /\ trace' = Append(trace, "read_state")
    /\ all_items' = <<>>
    /\ UNCHANGED <<inputs, poll_vars, config, i, results, rendered, state_file,
                   fetched_at, report_vars, token_file>>

\* strategy_a = FullWatchStrategy(client, config, last_run), whose __init__
\* parses last_run; items_a = strategy_a.run(); all_items.extend(items_a)
Inbox_StrategyA ==
    /\ prog = "run_inbox" /\ pc = "strategy_a"
    /\ IF last_run = None
       THEN /\ pc' = "exited" /\ exit_code' = "TypeError"
            /\ trace' = Append(trace, "stderr")
            /\ UNCHANGED <<results, all_items>>
       ELSE /\ results' = FullWatchRun(config.watch_all)
            /\ all_items' = all_items \o results'
            /\ trace' = trace \o Requests(Len(SelectSeq(config.watch_all,
                                              LAMBDA r : Len(split(r)) = 2)))
            /\ pc' = "strategy_b" /\ exit_code' = exit_code
    /\ UNCHANGED <<inputs, poll_vars, config, last_run, i, rendered, state_file,
                   fetched_at, report_vars, token_file>>

\* items_b = strategy_b.run(); all_items.extend(items_b); fetched_at is the
\* reading of the clock when the strategies have returned
Inbox_StrategyB ==
    /\ prog = "run_inbox" /\ pc = "strategy_b"
    /\ results' = MentionRun(config.watch_mentions, config.username)
    /\ all_items' = all_items \o results'
    /\ trace' = trace \o Requests(IF config.watch_mentions = <<>>
                                     \/ NoUsername(config.username) THEN 0 ELSE 1)
    /\ fetched_at' \in Clock
    /\ pc' = "render"
    /\ UNCHANGED <<inputs, poll_vars, config, last_run, i, rendered, state_file,
                   report_vars, exit_code, token_file>>

\* the same step, writing the state file as well
Inbox_RenderAndSave ==
    /\ prog = "run_inbox" /\ pc = "render"
    /\ rendered' = Render(all_items)
    /\ \E now \in Clock : state_file' = StateJson(now)
    /\ trace' = trace \o <<"write_state", "render">>
    /\ pc' = "update_state"
    /\ UNCHANGED <<inputs, poll_vars, config, last_run, i, results, all_items, fetched_at,
                   report_vars, exit_code, token_file>>

\* renderer.render(all_items)
Inbox_Render ==
    /\ prog = "run_inbox" /\ pc = "render"
    /\ rendered' = Render(all_items)
    /\ trace' = Append(trace, "render")
    /\ pc' = "update_state"
    /\ UNCHANGED <<inputs, poll_vars, config, last_run, i, results, all_items, state_file,
                   fetched_at, report_vars, exit_code, token_file>>

\* state_manager.update_last_run(), which writes datetime.now(timezone.utc),
\* a reading of the clock not earlier than the one at the fetch; print; the
\* command returns
Inbox_UpdateState ==
    /\ prog = "run_inbox" /\ pc = "update_state"
    /\ \E now \in {c \in Clock : ~ DtGreater(isoparse(fetched_at), isoparse(c))} :
          state_file' = StateJson(now)
    /\ trace' = Append(trace, "write_state")
    /\ pc' = "done" /\ exit_code' = "0"
    /\ UNCHANGED <<inputs, poll_vars, config, last_run, i, results, all_items, rendered,
                   fetched_at, report_vars, token_file>>

NextInbox ==
    \/ Inbox_Setup \/ Inbox_GetLastRun \/ Inbox_StrategyA \/ Inbox_StrategyB
    \/ Inbox_Render \/ Inbox_UpdateState

SpecInbox == InitInbox /\ [][NextInbox]_vars

Urls(items) == {items[k].url : k \in DOMAIN items}

InboxRendered == prog = "run_inbox" /\ pc \in {"update_state", "done"}

\* C1: the deduplicated list Renderer.render shows holds each url of the list
\* it was handed exactly once, and no url that was not in that list, also when
\* FullWatchStrategy and MentionWatchStrategy returned the same url.
C1_EachUrlOnce ==
    InboxRendered =>
        /\ \A u \in Urls(all_items) :
              Cardinality({k \in DOMAIN rendered : rendered[k].url = u}) = 1
        /\ Urls(rendered) \subseteq Urls(all_items)

\* C1 witness: both strategies returned the url w3, the merged list holds it
\* twice, the table once
C1_Witness ==
    /\ InboxRendered
    /\ \E u \in Urls(FullWatchRun(config.watch_all))
                  \cap Urls(MentionRun(config.watch_mentions, config.username)) :
          /\ Cardinality({k \in DOMAIN all_items : all_items[k].url = u}) >= 2
          /\ Cardinality({k \in DOMAIN rendered : rendered[k].url = u}) = 1
    /\ Len(rendered) >= 3

----------------------------------------------------------------------------
(* The report strategies: AuthoredActivityStrategy and                     *)
(* MaintainerActivityStrategy over the nodes of FRAGMENT_REPORT_PR and     *)
(* FRAGMENT_REPORT_ISSUE                                                   *)

InStamp == Iso(2, 12 * 3600, 0, "Z")
OutStamp == Iso(3, 0, 0, "Z")

ReportPeriod == [start_date |-> DateStr(2), end_date |-> DateStr(2)]

\* a commit oid: its first seven characters and the rest
Oid(first7, rest) == [first7 |-> first7, rest |-> rest]

BasePR ==
    [kind |-> "pr", url |-> "w/pull/1", number |-> 1, author |-> "bob",
     state |-> "OPEN", mergedAt |-> None, createdAt |-> InStamp,
     updatedAt |-> InStamp, commits |-> <<>>, reviews |-> <<>>,
     comments |-> <<>>, timelineItems |-> <<>>]

BaseIssue ==
    [kind |-> "issue", url |-> "w/issues/3", number |-> 3, author |-> "bob",
     state |-> "OPEN", mergedAt |-> None, createdAt |-> InStamp,
     updatedAt |-> InStamp, commits |-> <<>>, reviews |-> <<>>,
     comments |-> <<>>, timelineItems |-> <<>>]

ReportPayload(issues, pullRequests) ==
    [has_repository |-> TRUE, issues |-> issues, pullRequests |-> pullRequests]

Perms(S) ==
    {f \in [1..Cardinality(S) -> S] : \A a, b \in 1..Cardinality(S) : f[a] = f[b] => a = b}

\* list(set(watch_all + watch_mentions)): the entries once each, in the
\* order the set happens to iterate in
UniqueLists(cfg) == Perms(Range(cfg.watch_all \o cfg.watch_mentions))

EmptyAuthored == [pull_requests |-> <<>>, issues |-> <<>>]

\* a filter that lets every author through
AnyAuthor(pr, username) == TRUE

\* the negation of 'not pr.get("author") or pr["author"]["login"] !=
\* self.username'
ByAuthor(pr, username) == pr.author # "None" /\ pr.author = username

\* one iteration of the loop of AuthoredActivityStrategy.run
AuthoredIter(res, repo_fullname, username) ==
    LET parts == split(repo_fullname) IN
    IF Len(parts) # 2 THEN res
    ELSE LET data == execute(RepoOutcome(parts[1], parts[2])).value IN
         IF data = None \/ ~ data.has_repository THEN res
         ELSE [issues |-> res.issues \o
                   SelectSeq(data.issues, LAMBDA n : _is_in_period(n.createdAt)),
               pull_requests |-> res.pull_requests \o
                   SelectSeq(data.pullRequests,
                             LAMBDA n : /\ ByAuthor(n, username)
                                        /\ _is_in_period(n.createdAt))]

RECURSIVE AuthoredLoop(_, _, _)
AuthoredLoop(rl, res, username) ==
    IF rl = <<>> THEN res
    ELSE AuthoredLoop(Tail(rl), AuthoredIter(res, Head(rl), username), username)

\* AuthoredActivityStrategy.run, given the order of list(set(repos))
AuthoredRun(rl, username) ==
    IF rl = <<>> \/ NoUsername(username) THEN EmptyAuthored
    ELSE AuthoredLoop(rl, EmptyAuthored, username)

EmptyMaintainer ==
    [prs_reviewed |-> <<>>, prs_closed_merged |-> <<>>, issues_engaged |-> <<>>,
     issues_closed |-> <<>>]

KeepAuthored(item, username) == FALSE
\* "Skip authored items"
IsAuthoredBy(item, username) == item.author # "None" /\ item.author = username

\* an event inside the period, whoever its actor is
HasEventByAnyone(item, username) ==
    \E k \in DOMAIN item.timelineItems :
        _is_in_period(item.timelineItems[k].createdAt)

\* the timeline loop: a close or merge event of the user inside the period
HasEventBy(item, username) ==
    \E k \in DOMAIN item.timelineItems :
        /\ item.timelineItems[k].actor # "None"
        /\ item.timelineItems[k].actor = username
        /\ _is_in_period(item.timelineItems[k].createdAt)

\* one iteration of the loop of MaintainerActivityStrategy.run
MaintainerIter(res, repo_fullname, username) ==
    LET parts == split(repo_fullname) IN
    IF Len(parts) # 2 THEN res
    ELSE LET data == execute(RepoOutcome(parts[1], parts[2])).value IN
         IF data = None \/ ~ data.has_repository THEN res
         ELSE LET prs == SelectSeq(data.pullRequests,
                                   LAMBDA n : ~ IsAuthoredBy(n, username))
                  issues == SelectSeq(data.issues,
                                      LAMBDA n : ~ IsAuthoredBy(n, username))
                  \* the review loop: a review of the user inside the period
                  HasReviewBy(pr) ==
                      \E k \in DOMAIN pr.reviews :
                          /\ pr.reviews[k].author # "None"
                          /\ pr.reviews[k].author = username
                          /\ _is_in_period(pr.reviews[k].createdAt)
                  \* the comment loop: a comment of the user (no date)
                  HasCommentBy(issue) ==
                      \E k \in DOMAIN issue.comments :
                          /\ issue.comments[k].author # "None"
                          /\ issue.comments[k].author = username
              IN [prs_reviewed |-> res.prs_reviewed \o
                      SelectSeq(prs, LAMBDA n : HasReviewBy(n)),
                  prs_closed_merged |-> res.prs_closed_merged \o
                      SelectSeq(prs, LAMBDA n : HasEventBy(n, username)),
                  issues_engaged |-> res.issues_engaged \o
                      SelectSeq(issues, LAMBDA n : /\ HasCommentBy(n)
                                                   /\ _is_in_period(n.updatedAt)),
                  issues_closed |-> res.issues_closed \o
                      SelectSeq(issues, LAMBDA n : HasEventBy(n, username))]

RECURSIVE MaintainerLoop(_, _, _)
MaintainerLoop(rl, res, username) ==
    IF rl = <<>> THEN res
    ELSE MaintainerLoop(Tail(rl), MaintainerIter(res, Head(rl), username), username)

\* MaintainerActivityStrategy.run, given the order of list(set(repos))
MaintainerRun(rl, username) ==
    IF rl = <<>> \/ NoUsername(username) THEN EmptyMaintainer
    ELSE MaintainerLoop(rl, EmptyMaintainer, username)

----------------------------------------------------------------------------
(* The repositories the report strategies query *)

\* the answers of the API: acme/widgets times out or answers with one of
\* payloadsW, acme/gadgets answers with payloadG, with or without errors
ReportWebs(payloadsW, payloadG) ==
    {[repo |-> (KeyOf(RepoW) :> ow) @@ (KeyOf(RepoG) :> og)] :
        ow \in {Outcome("Timeout", 0, FALSE, FALSE, None)}
               \cup {Outcome("", 200, FALSE, TRUE, p) : p \in payloadsW},
        og \in {Outcome("", 200, TRUE, TRUE, payloadG),
                Outcome("", 200, FALSE, TRUE, payloadG)}}

\* what the query of AuthoredActivityStrategy finds: the issues the user
\* created (filterBy createdBy) and the newest pull requests
AuthoredWebs ==
    LET Commit(oid, login) == [oid |-> oid, login |-> login]
        P1(author, createdAt) ==
            [BasePR EXCEPT !.author = author, !.createdAt = createdAt]
        P2(mergedAt, state) ==
            [BasePR EXCEPT !.url = "w/pull/2", !.number = 2, !.author = "alice",
                           !.mergedAt = mergedAt, !.state = state,
                           !.commits = <<Commit(Oid("abc1234", "5"), "alice"),
                                         Commit(Oid("def5678", "9"), "bob")>>]
        I1(createdAt) == [BaseIssue EXCEPT !.author = "alice", !.createdAt = createdAt]
        WidgetsPayloads ==
            {ReportPayload(<<I1(InStamp)>>, <<P1(a, c), P2(None, "OPEN")>>) :
                a \in {"alice", "bob", "None"}, c \in {InStamp, OutStamp}}
            \cup {ReportPayload(<<I1(c)>>, <<P1("bob", InStamp), P2(m, st)>>) :
                c \in {InStamp, OutStamp}, m \in {None, InStamp},
                st \in {"OPEN", "CLOSED", "MERGED"}}
        GadgetsPayload ==
            ReportPayload(<<[BaseIssue EXCEPT !.url = "g/issues/3", !.author = "alice"]>>,
                          <<[BasePR EXCEPT !.url = "g/pull/1", !.author = "alice",
                                           !.state = "MERGED", !.mergedAt = InStamp]>>)
    IN ReportWebs(WidgetsPayloads, GadgetsPayload)

\* what the query of MaintainerActivityStrategy finds: the most recently
\* updated issues and pull requests
MaintainerWebs ==
    LET Review(author, createdAt) == [author |-> author, createdAt |-> createdAt]
        Event(actor, createdAt) == [actor |-> actor, createdAt |-> createdAt]
        \* a comment: FRAGMENT_REPORT_ISSUE asks for its author only; createdAt
        \* is the date the server holds for it
        Comment(author, createdAt) == [author |-> author, createdAt |-> createdAt]
        Q1(author, reviews, timelineItems) ==
            [BasePR EXCEPT !.author = author, !.reviews = reviews,
                           !.timelineItems = timelineItems]
        J1(author, comments, updatedAt, timelineItems) ==
            [BaseIssue EXCEPT !.author = author, !.comments = comments,
                              !.updatedAt = updatedAt, !.timelineItems = timelineItems]
        ReviewLists ==
            {<<>>, <<Review("alice", InStamp)>>, <<Review("alice", OutStamp)>>,
             <<Review("bob", InStamp), Review("alice", InStamp),
               Review("alice", InStamp)>>}
        EventLists ==
            {<<>>, <<Event("alice", InStamp)>>,
             <<Event("bob", InStamp), Event("alice", OutStamp)>>,
             <<Event("None", InStamp), Event("alice", InStamp), Event("alice", InStamp)>>}
        WidgetsPayloads ==
            {ReportPayload(<<J1("bob", <<Comment("alice", InStamp)>>, InStamp, <<>>)>>,
                           <<Q1(a, r, e)>>) :
                a \in {"alice", "bob", "None"}, r \in ReviewLists, e \in EventLists}
            \cup {ReportPayload(<<J1(a, c, u, e)>>,
                                <<Q1("bob", <<Review("alice", InStamp)>>, <<>>)>>) :
                a \in {"alice", "bob"},
                c \in {<<>>, <<Comment("bob", InStamp), Comment("alice", InStamp)>>,
                       <<Comment("alice", Iso(1, 12 * 3600, 0, "Z")),
                         Comment("bob", InStamp)>>,
                       <<Comment("None", InStamp)>>},
                u \in {InStamp, OutStamp},
                e \in {<<>>, <<Event("alice", InStamp)>>}}
        GadgetsPayload ==
            ReportPayload(<<[BaseIssue EXCEPT !.url = "g/issues/3",
                                              !.comments = <<Comment("alice", InStamp)>>]>>,
                          <<[BasePR EXCEPT !.url = "g/pull/1",
                                           !.reviews = <<Review("alice", InStamp)>>]>>)
    IN ReportWebs(WidgetsPayloads, GadgetsPayload)

----------------------------------------------------------------------------
(* AuthoredActivityStrategy.run and MaintainerActivityStrategy.run, one    *)
(* loop iteration per step                                                 *)

InitStrategy(name, webs) ==
    /\ prog = name
    /\ pc = "start"
    /\ config \in {[watch_all |-> wa, watch_mentions |-> wm, username |-> u] :
                      wa \in SeqsUpTo({RepoW, RepoG, NoSlash}, MaxRepos),
                      wm \in {<<>>, <<RepoW>>}, u \in {"alice", "None"}}
    /\ web \in webs
    /\ period = ReportPeriod
    /\ last_run = None
    /\ i = 0
    /\ results = <<>>
    /\ arg = None
    /\ all_items = <<>> /\ rendered = <<>> /\ state_file = None
    /\ repo_list = <<>> /\ report_data = None /\ pr_commit_shas = {}
    /\ NoProcess

InitMaintainer == InitStrategy("MaintainerActivityStrategy.run", MaintainerWebs)

\* repos = list(set(...)); the early return; the empty results
Strategy_Begin(name, empty) ==
    /\ prog = name /\ pc = "start"
    /\ \E rl \in UniqueLists(config) : repo_list' = rl
    /\ results' = empty
    /\ IF repo_list' = <<>> \/ NoUsername(config.username)
       THEN pc' = "done" /\ i' = i
       ELSE pc' = "loop" /\ i' = 1
    /\ UNCHANGED <<inputs, poll_vars, proc_vars, config, last_run, inbox_vars, report_data, pr_commit_shas>>

Strategy_Return(name) ==
    /\ prog = name /\ pc = "loop"
    /\ i > Len(repo_list)
    /\ pc' = "done"
    /\ UNCHANGED <<inputs, poll_vars, proc_vars, config, last_run, i, results, inbox_vars, report_vars>>

Authored_Iter ==
    /\ prog = "AuthoredActivityStrategy.run" /\ pc = "loop"
    /\ i <= Len(repo_list)
    /\ results' = AuthoredIter(results, repo_list[i], config.username)
    /\ i' = i + 1
    /\ UNCHANGED <<inputs, poll_vars, proc_vars, config, pc, last_run, inbox_vars, report_vars>>

Maintainer_Iter ==
    /\ prog = "MaintainerActivityStrategy.run" /\ pc = "loop"
    /\ i <= Len(repo_list)
    /\ results' = MaintainerIter(results, repo_list[i], config.username)
    /\ i' = i + 1
    /\ UNCHANGED <<inputs, poll_vars, proc_vars, config, pc, last_run, inbox_vars, report_vars>>

NextMaintainer ==
    \/ Strategy_Begin("MaintainerActivityStrategy.run", EmptyMaintainer)
    \/ Maintainer_Iter
    \/ Strategy_Return("MaintainerActivityStrategy.run")

----------------------------------------------------------------------------
(* collect_data_graphql: the viewer query, AuthoredActivityStrategy, and   *)
(* the report built from its result                                        *)

\* a value Python takes as true: neither None nor the empty string
Truthy(x) == x # None /\ x # EmptyStr

\* the entry of a pull request, with its commits whose author is the user;
\* status = "open"; if pr.get("mergedAt"): ...; elif pr.get("state") == "CLOSED": ...
graphql_pr_entry(pr, username) ==
    LET mine == SelectSeq(pr.commits,
                          LAMBDA c : c.login # "None" /\ c.login = username)
        status == IF Truthy(pr.mergedAt) THEN "merged"
                  ELSE IF pr.state = "CLOSED" THEN "closed" ELSE "open"
    IN [number |-> pr.number, url |-> pr.url, status |-> status,
        commits |-> [k \in DOMAIN mine |-> [sha |-> mine[k].oid.first7]]]

CollectRepos == SeqsUpTo({RepoW, RepoG, NoSlash}, MaxRepos) \ {<<>>}

InitCollectGraphql ==
    /\ prog = "collect_data_graphql"
    /\ pc = "start"
    /\ arg \in {[repos |-> r] : r \in CollectRepos}
    /\ web \in {[repo |-> w.repo, viewer |-> v] :
                   w \in AuthoredWebs,
                   v \in {Outcome("", 200, FALSE, TRUE, [login |-> "alice"]),
                          Outcome("", 401, FALSE, FALSE, None),
                          Outcome("ConnectionError", 0, FALSE, FALSE, None)}}
    /\ period = ReportPeriod
    /\ config = None
    /\ last_run = None
    /\ i = 0
    /\ results = <<>>
    /\ all_items = <<>> /\ rendered = <<>> /\ state_file = None
    /\ repo_list = <<>> /\ report_data = None /\ pr_commit_shas = {}
    /\ NoProcess

\* user_data = client.execute(user_query); the configuration of the strategy
Collect_Viewer ==
    /\ prog = "collect_data_graphql" /\ pc = "start"
    /\ LET user_data == execute(web.viewer).value IN
       IF user_data = None
       THEN /\ report_data' = [data |-> None, error |-> "Failed to fetch user data"]
            /\ pc' = "done"
            /\ config' = config
       ELSE /\ config' = [username |-> user_data.login, watch_all |-> arg.repos,
                          watch_mentions |-> <<>>]
            /\ pc' = "strategy"
            /\ report_data' = report_data
    /\ UNCHANGED <<inputs, poll_vars, proc_vars, last_run, i, results, inbox_vars, repo_list, pr_commit_shas>>

\* data = strategy.run()
Collect_Strategy ==
    /\ prog = "collect_data_graphql" /\ pc = "strategy"
    /\ \E rl \in UniqueLists(config) :
          /\ repo_list' = rl
          /\ results' = AuthoredRun(rl, config.username)
    /\ pc' = "build"
    /\ UNCHANGED <<inputs, poll_vars, proc_vars, config, last_run, i, inbox_vars, report_data, pr_commit_shas>>

\* report_data and the two loops that fill its contributions
graphql_report(data, username, repos) ==
    [username |-> username,
     period |-> [start |-> period.start_date, end |-> period.end_date],
     repositories |-> repos,
     contributions |->
        [pull_requests |->
            [k \in DOMAIN data.pull_requests |->
                graphql_pr_entry(data.pull_requests[k], username)],
         issues |->
            [k \in DOMAIN data.issues |->
                [number |-> data.issues[k].number,
                 url |-> data.issues[k].url,
                 status |-> IF data.issues[k].state = "CLOSED"
                            THEN "closed" ELSE "open"]],
         commits |-> <<>>],
     maintainer_work |-> EmptyMaintainer]

Collect_Build ==
    /\ prog = "collect_data_graphql" /\ pc = "build"
    /\ report_data' = [data |-> graphql_report(results, config.username, arg.repos),
                       error |-> None]
    /\ pc' = "done"
    /\ UNCHANGED <<inputs, poll_vars, proc_vars, config, last_run, i, results, inbox_vars, repo_list,
                   pr_commit_shas>>

----------------------------------------------------------------------------
(* The report command: cli.main with the subcommand report, and            *)
(* generate_report.  arg holds the command line (--repos, and whether a    *)
(* narrative is asked for by --narrative or by the configuration).         *)

\* repos = args.repos; if not repos: repos = watch_all + watch_mentions
ReportRepos ==
    IF arg.repos # <<>> THEN arg.repos ELSE config.watch_all \o config.watch_mentions

\* collect_data_graphql as a function of the repositories and of the order
\* of list(set(repos)): the report and the error (one of them is None)
collect_data_graphql(repos, rl) ==
    LET user_data == execute(web.viewer).value IN
    IF user_data = None
    THEN [data |-> None, error |-> "Failed to fetch user data"]
    ELSE [data |-> graphql_report(AuthoredRun(rl, user_data.login),
                                  user_data.login, repos),
          error |-> None]

\* generate_narrative: what it raises, and the pair it returns ("None" for
\* None).  env.genai tells what the library does: its Client constructor
\* raises, generate_content raises, the response has no text, or it has
generate_narrative(e) ==
    LET failed(msg) == [raised |-> "", narrative |-> "None", error |-> msg] IN
    IF ~ e.GENAI_AVAILABLE THEN failed("Google Genai is not installed")
    ELSE IF e.GEMINI_API_KEY \in {"", "None"} THEN failed("Gemini API key not found")
    ELSE IF e.genai = "client_raises"
         THEN [raised |-> "ValueError", narrative |-> "None", error |-> "None"]
    ELSE IF e.genai = "call_raises" THEN failed("Failed to generate narrative")
    ELSE IF e.genai = "empty" THEN failed("No narrative text generated")
    ELSE [raised |-> "", narrative |-> "text", error |-> "None"]

InitMain ==
    /\ prog = "main report"
    /\ pc = "start"
    /\ period = ReportPeriod
    /\ \/ /\ config = [watch_all |-> <<>>, watch_mentions |-> <<>>, username |-> "None"]
          /\ arg \in {[repos |-> r, narrative |-> FALSE] : r \in CollectRepos}
          /\ env = BaseEnv
          /\ web \in {[repo |-> w.repo,
                       viewer |-> Outcome("", 200, FALSE, TRUE, [login |-> "alice"])] :
                         w \in AuthoredWebs \cup MaintainerWebs}
       \/ /\ config \in {[watch_all |-> wa, watch_mentions |-> wm, username |-> "None"] :
                           wa \in {<<>>, <<RepoW>>}, wm \in {<<>>, <<RepoG>>}}
          /\ arg \in {[repos |-> r, narrative |-> n] :
                         r \in {<<>>, <<RepoW>>}, n \in BOOLEAN}
          /\ env \in {[BaseEnv EXCEPT !.GITHUB_TOKEN = t, !.GENAI_AVAILABLE = a,
                                      !.GEMINI_API_KEY = k, !.genai = g] :
                         t \in {"tok", "", "None"}, a \in BOOLEAN, k \in {"key", "None"},
                         g \in {"client_raises", "call_raises", "empty", "text"}}
          /\ web \in {[repo |-> (CHOOSE w \in MaintainerWebs :
                                    w.repo[KeyOf(RepoW)].exc = "").repo,
                       viewer |-> v] :
                         v \in {Outcome("", 200, FALSE, TRUE, [login |-> "alice"]),
                                Outcome("", 401, FALSE, FALSE, None),
                                Outcome("ConnectionError", 0, FALSE, FALSE, None)}}
    /\ state_file \in {[kind |-> "missing"], StateJson(Iso(2, 12 * 3600, 0, "+00:00"))}
    /\ last_run = None
    /\ i = 0
    /\ results = <<>>
    /\ all_items = <<>> /\ rendered = <<>>
    /\ repo_list = <<>> /\ report_data = None /\ pr_commit_shas = {}
    /\ exit_code = "None" /\ trace = <<>> /\ token_file = None
    /\ fetched_at = None /\ elapsed = 0 /\ interval = 0

\* the same step with the state file read the way run_inbox reads it
Main_ReportWithState ==
    /\ prog = "main report" /\ pc = "start"
    /\ last_run' = get_last_run(state_file, CHOOSE now \in Clock : TRUE).value
    /\ IF ReportRepos = <<>> \/ NoToken(env.GITHUB_TOKEN)
       THEN /\ pc' = "exited" /\ exit_code' = "1"
            /\ trace' = trace \o <<"read_state", "print_error">>
       ELSE /\ pc' = "generate_report" /\ exit_code' = exit_code
            /\ trace' = Append(trace, "read_state")
    /\ UNCHANGED <<inputs, poll_vars, config, i, results, inbox_vars, report_vars, token_file>>

\* main, subcommand report: without repositories, or without GITHUB_TOKEN,
\* it prints an error and calls sys.exit(1)
Main_Report ==
    /\ prog = "main report" /\ pc = "start"
    /\ IF ReportRepos = <<>> \/ NoToken(env.GITHUB_TOKEN)
       THEN /\ pc' = "exited" /\ exit_code' = "1"
            /\ trace' = Append(trace, "print_error")
       ELSE /\ pc' = "generate_report"
            /\ UNCHANGED <<exit_code, trace>>
    /\ UNCHANGED <<inputs, poll_vars, config, last_run, i, results, inbox_vars, report_vars,
                   token_file>>

\* generate_report: report_data, error = collect_data_graphql(...); with an
\* error it prints the error and returns
Report_Collect ==
    /\ prog = "main report" /\ pc = "generate_report"
    /\ \E rl \in Perms(Range(ReportRepos)) :
          /\ repo_list' = rl
          /\ report_data' = collect_data_graphql(ReportRepos, rl)
    /\ IF report_data'.data = None
       THEN /\ trace' = trace \o <<"request", "print_error">>
            /\ pc' = "done" /\ exit_code' = "0"
       ELSE /\ trace' = trace \o Requests(1 + Len(SelectSeq(repo_list',
                                                   LAMBDA r : Len(split(r)) = 2)))
            /\ pc' = "output" /\ exit_code' = exit_code
    /\ UNCHANGED <<inputs, poll_vars, config, last_run, i, results, inbox_vars, pr_commit_shas,
                   token_file>>

\* generate_report: the structured report, and with use_narrative the
\* narrative or the notice that there is none
Report_Output ==
    /\ prog = "main report" /\ pc = "output"
    /\ LET r == generate_narrative(env) IN
       IF ~ arg.narrative
       THEN /\ trace' = Append(trace, "print_report")
            /\ pc' = "done" /\ exit_code' = "0"
       ELSE IF r.raised # ""
       THEN /\ trace' = trace \o <<"print_report", "stderr">>
            /\ pc' = "exited" /\ exit_code' = r.raised
       ELSE /\ trace' = trace \o <<"print_report",
                                   IF r.error # "None" THEN "print_notice"
                                   ELSE IF r.narrative # "None" THEN "print_narrative"
                                   ELSE "print_could_not">>
            /\ pc' = "done" /\ exit_code' = "0"
    /\ UNCHANGED <<inputs, poll_vars, config, last_run, i, results, inbox_vars, report_vars,
                   token_file>>

----------------------------------------------------------------------------
(* collect_github_data, the reporter over the REST search API.  The server *)
(* is a list of issues and pull requests (web.db) and a list of commits    *)
(* (web.commit_db); a search answers with the entries its qualifiers       *)
(* match, in the order of the list.                                        *)

\* start_date <= d <= end_date, on the day of a date
InRange(day) ==
    strptime_date(period.start_date) <= day /\ day <= strptime_date(period.end_date)

\* repo:{repo} when the entry has a slash, org:{repo} otherwise
RepoQualifier(repo) ==
    IF "/" \in Range(repo) THEN [key |-> "repo", value |-> repo]
    ELSE [key |-> "org", value |-> repo]

QualifierMatches(q, repo) ==
    IF q.key = "repo" THEN repo = q.value ELSE <<repo[1]>> = q.value

\* a query of search_issues: is:pr / is:issue, is:closed, one qualifier on
\* a login, one qualifier on a date
Query(kind, closed_only, role, login, date_field) ==
    [kind |-> kind, closed_only |-> closed_only, role |-> role, login |-> login,
     date_field |-> date_field]

IssueMatches(item, q, repo_qualifier) ==
    /\ item.kind = q.kind
    /\ q.closed_only => item.state = "closed"
    /\ CASE q.role = "author"      -> item.user = q.login
         [] q.role = "commenter"   -> q.login \in item.commenters
         [] q.role = "reviewed-by" -> q.login \in item.reviewers
         [] q.role = "mentions"    -> q.login \in item.mentions
         [] q.role = "assignee"    -> q.login \in item.assignees
    /\ CASE q.date_field = "created" -> InRange(item.created_at.day)
         [] q.date_field = "updated" -> InRange(item.updated_day)
         [] q.date_field = "closed"  -> InRange(item.closed_day)
    /\ QualifierMatches(repo_qualifier, item.repo)

\* g.search_issues for one entry: the matches, or <<>> when it raises
search_issues(q, repo) ==
    IF repo \in web.unsearchable THEN <<>>
    ELSE SelectSeq(web.db, LAMBDA item : IssueMatches(item, q, RepoQualifier(repo)))

RECURSIVE run_search_for_repos(_, _)
run_search_for_repos(q, repos) ==
    IF repos = <<>> THEN <<>>
    ELSE search_issues(q, Head(repos)) \o run_search_for_repos(q, Tail(repos))

\* g.search_commits for one entry
search_commits(login, repo) ==
    IF repo \in web.unsearchable THEN <<>>
    ELSE SelectSeq(web.commit_db,
                   LAMBDA c : /\ c.author = login
                              /\ InRange(c.committer_day)
                              /\ QualifierMatches(RepoQualifier(repo), c.repo))

RECURSIVE run_commit_search_for_repos(_, _)
run_commit_search_for_repos(login, repos) ==
    IF repos = <<>> THEN <<>>
    ELSE search_commits(login, Head(repos))
         \o run_commit_search_for_repos(login, Tail(repos))

\* sorted(..., key=lambda x: x.created_at, reverse=True): newest first, equal
\* keys in the order they came
RECURSIVE InsertByCreated(_, _)
InsertByCreated(sorted, x) ==
    IF sorted = <<>> THEN <<x>>
    ELSE IF \/ Head(sorted).created_at.day > x.created_at.day
            \/ /\ Head(sorted).created_at.day = x.created_at.day
               /\ Head(sorted).created_at.tod >= x.created_at.tod
         THEN <<Head(sorted)>> \o InsertByCreated(Tail(sorted), x)
         ELSE <<x>> \o sorted

RECURSIVE SortFromCreated(_, _)
SortFromCreated(acc, rest) ==
    IF rest = <<>> THEN acc
    ELSE SortFromCreated(InsertByCreated(acc, Head(rest)), Tail(rest))

sorted_by_created(xs) == SortFromCreated(<<>>, xs)

\* "if pr.number not in seen": what the loop remembers of an item
seen_key(item) == item.number

StateBeforeMergedAt(pr) ==
    IF pr.state = "closed" THEN "closed"
    ELSE IF Truthy(pr.merged_at) THEN "merged" ELSE "open"
\* "merged" if pr.pull_request.merged_at else ("closed" if pr.state == "closed" else "open")
rest_status(pr) ==
    IF Truthy(pr.merged_at) THEN "merged"
    ELSE IF pr.state = "closed" THEN "closed" ELSE "open"

\* the try block of one pull request: its commits by the user
rest_pr_commits(pr, username) ==
    IF pr.commits_fail THEN <<>>
    ELSE LET mine == SelectSeq(pr.commits,
                               LAMBDA c : c.author # "None" /\ c.author = username)
         IN [k \in DOMAIN mine |-> [sha |-> mine[k].sha.first7, url |-> mine[k].html_url]]

\* the loop over the sorted pull requests: the entries and pr_commit_shas
RECURSIVE AuthoredPRLoop(_, _, _, _, _)
AuthoredPRLoop(prs, seen, entries, shas, username) ==
    IF prs = <<>> THEN [entries |-> entries, shas |-> shas]
    ELSE LET pr == Head(prs) IN
         IF seen_key(pr) \in seen
         THEN AuthoredPRLoop(Tail(prs), seen, entries, shas, username)
         ELSE AuthoredPRLoop(Tail(prs), seen \cup {seen_key(pr)},
                  Append(entries,
                         [number |-> pr.number, url |-> pr.html_url, title |-> pr.title,
                          status |-> rest_status(pr),
                          commits |-> rest_pr_commits(pr, username)]),
                  shas \cup (IF pr.commits_fail THEN {}
                            ELSE {pr.commits[k].sha : k \in DOMAIN pr.commits}),
                  username)

\* the loop over the sorted issues the user created
RECURSIVE AuthoredIssueLoop(_, _, _)
AuthoredIssueLoop(issues, seen, entries) ==
    IF issues = <<>> THEN entries
    ELSE LET issue == Head(issues) IN
         IF seen_key(issue) \in seen
         THEN AuthoredIssueLoop(Tail(issues), seen, entries)
         ELSE AuthoredIssueLoop(Tail(issues), seen \cup {seen_key(issue)},
                  Append(entries,
                         [number |-> issue.number, url |-> issue.html_url,
                          title |-> issue.title,
                          status |-> IF issue.state = "closed" THEN "closed"
                                     ELSE "open"]))

\* commit_list[:10]
WipPerRepo == 10

\* the keys of repo_commits, in the order the orphans first name them
RECURSIVE RepoOrder(_, _)
RepoOrder(commits, acc) ==
    IF commits = <<>> THEN acc
    ELSE RepoOrder(Tail(commits),
                   IF Head(commits).repo \in Range(acc) THEN acc
                   ELSE Append(acc, Head(commits).repo))

RECURSIVE WipOfRepos(_, _)
WipOfRepos(names, orphan_commits) ==
    IF names = <<>> THEN <<>>
    ELSE LET commit_list == SelectSeq(orphan_commits, LAMBDA c : c.repo = Head(names))
         IN [k \in 1..(IF Len(commit_list) < WipPerRepo THEN Len(commit_list)
                        ELSE WipPerRepo) |->
                [sha |-> commit_list[k].sha.first7, url |-> commit_list[k].html_url,
                 repo |-> commit_list[k].repo]]
            \o WipOfRepos(Tail(names), orphan_commits)

\* contributions.commits, given what the commit search found; a commit is
\* kept "if commit.sha not in pr_commit_shas"
work_in_progress(commits, shas) ==
    LET orphan_commits == SelectSeq(commits, LAMBDA c : c.sha \notin shas)
    IN WipOfRepos(RepoOrder(orphan_commits, <<>>), orphan_commits)

\* "pr.user.login != username"
NotBy(item, username) == item.user # username

\* the set pr_reviewed after the two searches
pr_reviewed_set(username, repos) ==
    {[number |-> pr.number, url |-> pr.html_url, title |-> pr.title, state |-> pr.state] :
        pr \in {x \in Range(run_search_for_repos(
                               Query("pr", FALSE, "commenter", username, "updated"), repos)) :
                   NotBy(x, username)}}
    \cup
    {[number |-> pr.number, url |-> pr.html_url, title |-> pr.title, state |-> pr.state] :
        pr \in {x \in Range(run_search_for_repos(
                               Query("pr", FALSE, "reviewed-by", username, "updated"), repos)) :
                   NotBy(x, username)}}

\* the entry of issues_closed for an issue
reason_of(issue, reason) ==
    [number |-> issue.number, url |-> issue.html_url, title |-> issue.title,
     reason |-> reason]

\* a dict keyed by number, as the list of its values in insertion order
HasNumber(d, number) == \E k \in DOMAIN d : d[k].number = number

\* d[e.number] = e: a new key goes last, an old key keeps its place
PutEntry(d, e) ==
    IF HasNumber(d, e.number)
    THEN [k \in DOMAIN d |-> IF d[k].number = e.number THEN e ELSE d[k]]
    ELSE Append(d, e)

\* the loop over the closed pull requests the user wrote
RECURSIVE ClosedAuthoredLoop(_, _)
ClosedAuthoredLoop(d, prs) ==
    IF prs = <<>> THEN d
    ELSE LET pr == Head(prs) IN
         ClosedAuthoredLoop(
             PutEntry(d, [number |-> pr.number, url |-> pr.html_url, title |-> pr.title,
                          status |-> IF Truthy(pr.merged_at) THEN "merged (author)"
                                     ELSE "closed (author)"]),
             Tail(prs))

\* the loop over the closed pull requests the user reviewed
RECURSIVE ClosedReviewedLoop(_, _, _)
ClosedReviewedLoop(d, prs, username) ==
    IF prs = <<>> THEN d
    ELSE LET pr == Head(prs) IN
         ClosedReviewedLoop(
             IF NotBy(pr, username) /\ ~ HasNumber(d, pr.number)
             THEN Append(d, [number |-> pr.number, url |-> pr.html_url, title |-> pr.title,
                            status |-> IF Truthy(pr.merged_at) THEN "merged (reviewed)"
                                       ELSE "closed (reviewed)"])
             ELSE d,
             Tail(prs), username)

prs_closed(username, repos) ==
    ClosedReviewedLoop(
        ClosedAuthoredLoop(<<>>, run_search_for_repos(
            Query("pr", TRUE, "author", username, "closed"), repos)),
        run_search_for_repos(Query("pr", TRUE, "reviewed-by", username, "closed"), repos),
        username)

\* one of the three loops of the issue engagement
RECURSIVE EngagedLoop(_, _, _, _)
EngagedLoop(d, issues, username, interaction) ==
    IF issues = <<>> THEN d
    ELSE LET issue == Head(issues)
             added == IF HasNumber(d, issue.number) THEN d
                      ELSE Append(d, [number |-> issue.number, url |-> issue.html_url,
                                      title |-> issue.title, state |-> issue.state,
                                      interactions |-> {}])
         IN EngagedLoop(
                IF NotBy(issue, username)
                THEN [k \in DOMAIN added |->
                         IF added[k].number = issue.number
                         THEN [added[k] EXCEPT !.interactions = @ \cup {interaction}]
                         ELSE added[k]]
                ELSE d,
                Tail(issues), username, interaction)

issues_engaged(username, repos) ==
    EngagedLoop(
        EngagedLoop(
            EngagedLoop(<<>>,
                run_search_for_repos(
                    Query("issue", FALSE, "commenter", username, "updated"), repos),
                username, "commented"),
            run_search_for_repos(Query("issue", FALSE, "mentions", username, "updated"), repos),
            username, "mentioned"),
        run_search_for_repos(Query("issue", FALSE, "assignee", username, "updated"), repos),
        username, "assigned")

\* comments[-5:]
RecentComments == 5

\* the loop over recent_comments: the reason it stores ("" for none); a
\* comment without a user raises, and the except clause names the reason
RECURSIVE ScanComments(_, _)
ScanComments(comments, username) ==
    IF comments = <<>> THEN ""
    ELSE LET comment == Head(comments) IN
         IF comment.user = "None" THEN "involved in closure"
         ELSE IF comment.user = username /\ InRange(comment.day)
              THEN (IF comment.closing_word THEN "closed as duplicate/resolved"
                    ELSE "closed after commenting")
              ELSE ScanComments(Tail(comments), username)

closure_reason(issue, username) ==
    IF issue.comments_fail THEN "involved in closure"
    ELSE ScanComments(IF Len(issue.comments) > RecentComments
                      THEN SubSeq(issue.comments,
                                  Len(issue.comments) - RecentComments + 1,
                                  Len(issue.comments))
                      ELSE issue.comments,
                      username)

RECURSIVE ClosedIssuesAuthoredLoop(_, _)
ClosedIssuesAuthoredLoop(d, issues) ==
    IF issues = <<>> THEN d
    ELSE ClosedIssuesAuthoredLoop(
             PutEntry(d, reason_of(Head(issues), "authored & closed")), Tail(issues))

RECURSIVE ClosedIssuesCommentedLoop(_, _, _)
ClosedIssuesCommentedLoop(d, issues, username) ==
    IF issues = <<>> THEN d
    ELSE LET issue == Head(issues) IN
         ClosedIssuesCommentedLoop(
             IF /\ NotBy(issue, username) /\ ~ HasNumber(d, issue.number)
                /\ closure_reason(issue, username) # ""
             THEN Append(d, reason_of(issue, closure_reason(issue, username)))
             ELSE d,
             Tail(issues), username)

RECURSIVE ClosedIssuesAssignedLoop(_, _, _)
ClosedIssuesAssignedLoop(d, issues, username) ==
    IF issues = <<>> THEN d
    ELSE LET issue == Head(issues) IN
         ClosedIssuesAssignedLoop(
             IF NotBy(issue, username) /\ ~ HasNumber(d, issue.number)
             THEN Append(d, reason_of(issue, "assigned & closed"))
             ELSE d,
             Tail(issues), username)

issues_closed(username, repos) ==
    ClosedIssuesAssignedLoop(
        ClosedIssuesCommentedLoop(
            ClosedIssuesAuthoredLoop(<<>>, run_search_for_repos(
                Query("issue", TRUE, "author", username, "closed"), repos)),
            run_search_for_repos(Query("issue", TRUE, "commenter", username, "closed"), repos),
            username),
        run_search_for_repos(Query("issue", TRUE, "assignee", username, "closed"), repos),
        username)

----------------------------------------------------------------------------
(* What the REST server holds: two pull requests of the user (one in each  *)
(* repository), a pull request and an issue the user may have worked on,   *)
(* an issue of the user, and the commits of the user                       *)

RestWebs ==
    LET At(day, tod) == [day |-> day, tod |-> tod]
        RestCommit(sha, repo, author, html_url) ==
            [sha |-> sha, repo |-> repo, author |-> author, committer_day |-> 2,
             html_url |-> html_url]
        CommitA == RestCommit(Oid("abc1234", "5"), RepoW, "alice", "w/commit/abc12345")
        CommitB == RestCommit(Oid("def5678", "9"), RepoG, "alice", "g/commit/def56789")
        CommitC == RestCommit(Oid("0123456", "7"), RepoW, "alice", "w/commit/01234567")
        CommitD == RestCommit(Oid("fedcba9", "8"), RepoW, "bob", "w/commit/fedcba98")
        RestComment(user, day, closing_word) ==
            [user |-> user, day |-> day, closing_word |-> closing_word]
        BaseItem ==
            [kind |-> "pr", repo |-> RepoW, number |-> 1, html_url |-> "w/pull/1",
             title |-> "T1", user |-> "alice", state |-> "open", merged_at |-> None,
             created_at |-> At(2, 5), updated_day |-> 2, closed_day |-> 0,
             commenters |-> {}, reviewers |-> {}, mentions |-> {}, assignees |-> {},
             commits |-> <<>>, commits_fail |-> FALSE, comments |-> <<>>,
             comments_fail |-> FALSE]
        \* open, closed without a merge, merged
        Open == [state |-> "open", merged_at |-> None, closed_day |-> 0]
        Closed == [state |-> "closed", merged_at |-> None, closed_day |-> 2]
        Merged == [state |-> "closed", merged_at |-> InStamp, closed_day |-> 2]
        Living(item, life) ==
            [item EXCEPT !.state = life.state, !.merged_at = life.merged_at,
                         !.closed_day = life.closed_day]
        \* a pull request of the user in acme/widgets
        ItemP1(life, commits_fail) ==
            Living([BaseItem EXCEPT !.commits = <<CommitA, CommitD>>,
                                    !.commits_fail = commits_fail], life)
        \* a pull request of the user in acme/gadgets
        ItemP2(number, commits, tod) ==
            [BaseItem EXCEPT !.repo = RepoG, !.number = number,
                             !.html_url = IF number = 1 THEN "g/pull/1" ELSE "g/pull/2",
                             !.title = "T2", !.commits = commits,
                             !.created_at = At(2, tod)]
        \* a pull request in acme/widgets the user may have reviewed
        ItemQ(user, reviewers, commenters, life, updated_day) ==
            Living([BaseItem EXCEPT !.number = 5, !.html_url = "w/pull/5",
                                    !.title = "T5", !.user = user,
                                    !.reviewers = reviewers, !.commenters = commenters,
                                    !.updated_day = updated_day,
                                    !.created_at = At(1, 0)], life)
        \* an issue in acme/widgets the user may have engaged with
        ItemJ(user, roles, closed, comments, comments_fail) ==
            [BaseItem EXCEPT !.kind = "issue", !.number = 7, !.html_url = "w/issues/7",
                             !.title = "T7", !.user = user,
                             !.commenters = IF "commenter" \in roles THEN {"alice"} ELSE {},
                             !.mentions = IF "mentions" \in roles THEN {"alice"} ELSE {},
                             !.assignees = IF "assignee" \in roles THEN {"alice"} ELSE {},
                             !.state = IF closed THEN "closed" ELSE "open",
                             !.closed_day = IF closed THEN 2 ELSE 0,
                             !.comments = comments, !.comments_fail = comments_fail]
        \* an issue of the user in acme/gadgets with the number of ItemJ
        ItemK ==
            [BaseItem EXCEPT !.kind = "issue", !.repo = RepoG, !.number = 7,
                             !.html_url = "g/issues/7", !.title = "T7g",
                             !.state = "closed", !.closed_day = 2,
                             !.created_at = At(2, 1)]
        CommentLists ==
            {<<>>,
             <<RestComment("bob", 2, FALSE), RestComment("alice", 2, TRUE)>>,
             <<RestComment("alice", 3, TRUE), RestComment("alice", 2, FALSE)>>,
             <<RestComment("None", 2, FALSE), RestComment("alice", 2, TRUE)>>,
             <<RestComment("alice", 2, TRUE), RestComment("bob", 2, FALSE),
               RestComment("bob", 2, FALSE), RestComment("bob", 2, FALSE),
               RestComment("bob", 2, FALSE), RestComment("bob", 3, FALSE)>>}
        RoleSets == {{"commenter"}, {"mentions"}, {"assignee"}, {"commenter", "assignee"}}
        DefaultP1 == ItemP1(Open, FALSE)
        DefaultP2 == ItemP2(2, <<CommitB>>, 9)
        DefaultQ == ItemQ("bob", {"alice"}, {}, Merged, 2)
        DefaultJ == ItemJ("bob", {"commenter"}, TRUE,
                          <<RestComment("alice", 2, TRUE)>>, FALSE)
        RestDbs ==
            {<<ItemP1(life, f), ItemP2(n, c, t), DefaultQ, DefaultJ, ItemK>> :
                life \in {Open, Closed, Merged}, f \in BOOLEAN, n \in {1, 2},
                c \in {<<CommitB>>, <<CommitA, CommitB>>}, t \in {1, 9}}
            \cup {<<DefaultP1, DefaultP2, ItemQ(u, r, c, life, d), DefaultJ, ItemK>> :
                u \in {"alice", "bob"}, r \in {{}, {"alice"}}, c \in {{}, {"alice"}},
                life \in {Open, Closed, Merged}, d \in {2, 3}}
            \cup {<<DefaultP1, DefaultP2, DefaultQ, ItemJ(u, r, closed, c, FALSE), ItemK>> :
                u \in {"alice", "bob"}, r \in RoleSets, closed \in BOOLEAN,
                c \in CommentLists}
            \cup {<<DefaultP1, DefaultP2, DefaultQ,
                    ItemJ("bob", r, TRUE, <<>>, TRUE), ItemK>> : r \in RoleSets}
    IN {[db |-> db, commit_db |-> <<CommitA, CommitB, CommitC>>,
         unsearchable |-> u, login |-> "alice"] :
            db \in RestDbs, u \in {{}, {RepoG}}}
       \cup {[db |-> <<>>, commit_db |-> <<>>, unsearchable |-> {},
              login |-> "BadCredentialsException"]}

----------------------------------------------------------------------------
(* collect_github_data, one step for each section of the function *)

InitRest ==
    /\ prog = "collect_github_data"
    /\ pc = "start"
    /\ arg \in {[repos |-> r] : r \in CollectRepos}
    /\ web \in RestWebs
    /\ period = ReportPeriod
    /\ config = None
    /\ last_run = None
    /\ i = 0
    /\ results = <<>>
    /\ all_items = <<>> /\ rendered = <<>> /\ state_file = None
    /\ repo_list = <<>> /\ report_data = None /\ pr_commit_shas = {}
    /\ NoProcess

RestStep(from, to) ==
    /\ prog = "collect_github_data" /\ pc = from
    /\ pc' = to
    /\ UNCHANGED <<inputs, poll_vars, proc_vars, config, last_run, i, results, inbox_vars, repo_list>>

Username == report_data.data.username

\* g.get_user().login and the empty report
Rest_Authenticate ==
    /\ RestStep("start", IF web.login = "BadCredentialsException" THEN "done" ELSE "prs")
    /\ report_data' =
          IF web.login = "BadCredentialsException"
          THEN [data |-> None, error |-> "Failed to authenticate with GitHub"]
          ELSE [data |->
                   [username |-> web.login,
                    period |-> [start |-> period.start_date, end |-> period.end_date],
                    repositories |-> arg.repos,
                    contributions |->
                        [pull_requests |-> <<>>, issues |-> <<>>, commits |-> <<>>],
                    maintainer_work |-> EmptyMaintainer],
                error |-> None]
    /\ UNCHANGED pr_commit_shas

\* "Collect Pull Requests Authored"
Rest_PullRequests ==
    /\ RestStep("prs", "issues")
    /\ LET prs == run_search_for_repos(
                      Query("pr", FALSE, "author", Username, "created"), arg.repos)
           r == AuthoredPRLoop(sorted_by_created(prs), {}, <<>>, {}, Username)
       IN /\ report_data' =
                [report_data EXCEPT !.data.contributions.pull_requests = r.entries]
          /\ pr_commit_shas' = r.shas

\* "Collect Issues Created"
Rest_Issues ==
    /\ RestStep("issues", "commits")
    /\ LET issues == run_search_for_repos(
                         Query("issue", FALSE, "author", Username, "created"), arg.repos)
       IN report_data' =
             [report_data EXCEPT !.data.contributions.issues =
                 AuthoredIssueLoop(sorted_by_created(issues), {}, <<>>)]
    /\ UNCHANGED pr_commit_shas

\* "Collect Work in Progress (Commits not in PRs)"
Rest_Commits ==
    /\ RestStep("commits", "reviews")
    /\ report_data' =
          [report_data EXCEPT !.data.contributions.commits =
              work_in_progress(run_commit_search_for_repos(Username, arg.repos),
                               pr_commit_shas)]
    /\ UNCHANGED pr_commit_shas

\* "Collect Pull Request Reviews": the set, listed in the order it iterates in
Rest_Reviews ==
    /\ RestStep("reviews", "closed_prs")
    /\ \E order \in Perms(pr_reviewed_set(Username, arg.repos)) :
          report_data' = [report_data EXCEPT !.data.maintainer_work.prs_reviewed = order]
    /\ UNCHANGED pr_commit_shas

\* "Collect Pull Requests Closed/Merged"
Rest_ClosedPullRequests ==
    /\ RestStep("closed_prs", "engagement")
    /\ report_data' = [report_data EXCEPT !.data.maintainer_work.prs_closed_merged =
                          prs_closed(Username, arg.repos)]
    /\ UNCHANGED pr_commit_shas

\* "Collect Issue Engagement"
Rest_IssueEngagement ==
    /\ RestStep("engagement", "issues_closed")
    /\ report_data' = [report_data EXCEPT !.data.maintainer_work.issues_engaged =
                          issues_engaged(Username, arg.repos)]
    /\ UNCHANGED pr_commit_shas

\* "Collect Issues Closed", and the return
Rest_IssuesClosed ==
    /\ RestStep("issues_closed", "done")
    /\ report_data' = [report_data EXCEPT !.data.maintainer_work.issues_closed =
                          issues_closed(Username, arg.repos)]
    /\ UNCHANGED pr_commit_shas

----------------------------------------------------------------------------
(* The reporters together, and the four strategies together *)

SpecReport ==
    /\ InitCollectGraphql \/ InitRest \/ InitMaintainer
    /\ [][\/ Collect_Viewer \/ Collect_Strategy \/ Collect_Build
          \/ Rest_Authenticate \/ Rest_PullRequests \/ Rest_Issues \/ Rest_Commits
          \/ Rest_Reviews \/ Rest_ClosedPullRequests \/ Rest_IssueEngagement
          \/ Rest_IssuesClosed
          \/ NextMaintainer]_vars

----------------------------------------------------------------------------
(* github_oauth.save_token.  The token file is its existence, the token it *)
(* holds and its permission bits; env holds the platform and the umask.    *)

\* os.chmod(TOKEN_FILE, 0o600)
OwnerOnly == 384

\* the bits of a that are not in mask
RECURSIVE AndNot(_, _)
AndNot(a, mask) ==
    IF a = 0 THEN 0
    ELSE (IF a % 2 = 1 /\ mask % 2 = 0 THEN 1 ELSE 0)
         + 2 * AndNot(a \div 2, mask \div 2)

InitSaveToken ==
    /\ prog = "save_token"
    /\ pc = "mkdir"
    /\ arg \in {[token |-> t] : t \in {"gho_A", "gho_B", "gho_C"}}
    /\ env \in {[BaseEnv EXCEPT !.os_name = o, !.umask = u] :
                   o \in {"posix", "nt"}, u \in {18, 23, 63, 2}}
    /\ token_file \in {[exists |-> FALSE, token |-> "None", mode |-> 0],
                       [exists |-> TRUE, token |-> "gho_old", mode |-> OwnerOnly]}
    /\ config = None /\ web = None /\ period = NoPeriod
    /\ last_run = None
    /\ i = 0
    /\ results = <<>>
    /\ all_items = <<>> /\ rendered = <<>> /\ state_file = None
    /\ repo_list = <<>> /\ report_data = None /\ pr_commit_shas = {}
    /\ exit_code = "None" /\ trace = <<>>
    /\ fetched_at = None /\ elapsed = 0 /\ interval = 0

\* CONFIG_DIR.mkdir(parents=True, exist_ok=True); token_data = {...}
SaveToken_Mkdir ==
    /\ prog = "save_token" /\ pc = "mkdir"
    /\ pc' = "write_text"
    /\ UNCHANGED <<inputs, poll_vars, proc_vars, config, last_run, i, results, inbox_vars,
                   report_vars>>

\* TOKEN_FILE.write_text(...): open(..., "w") keeps the permissions of a
\* file that exists and creates a missing one with 0o666 less the umask
SaveToken_WriteText ==
    /\ prog = "save_token" /\ pc = "write_text"
    /\ token_file' = [exists |-> TRUE, token |-> arg.token,
                      mode |-> IF token_file.exists THEN token_file.mode
                               ELSE AndNot(438, env.umask)]
    /\ pc' = "chmod"
    /\ UNCHANGED <<inputs, poll_vars, config, last_run, i, results, inbox_vars, report_vars,
                   exit_code, trace>>

\* if os.name != 'nt': os.chmod(TOKEN_FILE, 0o600); print
SaveToken_Chmod ==
    /\ prog = "save_token" /\ pc = "chmod"
    /\ token_file' = IF env.os_name # "nt"
                     THEN [token_file EXCEPT !.mode = OwnerOnly] ELSE token_file
    /\ trace' = Append(trace, "print_saved")
    /\ pc' = "done"
    /\ UNCHANGED <<inputs, poll_vars, config, last_run, i, results, inbox_vars, report_vars,
                   exit_code>>

SpecSaveToken ==
    InitSaveToken /\ [][SaveToken_Mkdir \/ SaveToken_WriteText \/ SaveToken_Chmod]_vars

----------------------------------------------------------------------------
(* OAuthDeviceFlow.poll_for_token.  web is the server: the answers to the  *)
(* first requests (script) and the answer to every later one (then); i is  *)
(* the number of requests sent; results is what the call returned or the   *)
(* message of the GitHubOAuthError it raised.                              *)

\* a response to the token request: the exception requests.post raised (""
\* for none), the status, and the keys access_token and error of the body
\* ("None" when the key is missing)
PollResponse(exc, status, access_token, error) ==
    [exc |-> exc, status |-> status, access_token |-> access_token, error |-> error]

Pending == PollResponse("", 200, "None", "authorization_pending")
SlowDown == PollResponse("", 200, "None", "slow_down")

\* the response to request number n
Answer(n) == IF n <= Len(web.script) THEN web.script[n] ELSE web.then

\* an interval that slow_down leaves as it is
KeepInterval(result, iv) == iv

\* the interval the loop sleeps for after a response that lets it go on:
\* "interval += 5" on slow_down
SleepInterval(result, iv) == IF result.error = "slow_down" THEN iv + 5 ELSE iv

\* the number of requests the server answers one by one, before it answers
\* the same for ever
MaxScript == 2

InitPoll ==
    /\ prog = "poll_for_token"
    /\ pc = "loop"
    /\ arg \in {[interval |-> iv, expires_in |-> ex] : iv \in {1, 5}, ex \in {7, 12}}
    /\ web \in {[script |-> sc, then |-> th] :
                   sc \in SeqsUpTo({Pending, SlowDown,
                                    PollResponse("", 200, "gho_A", "None"),
                                    PollResponse("", 200, "gho_B", "slow_down"),
                                    PollResponse("", 200, "None", "access_denied"),
                                    PollResponse("", 200, "None", "None"),
                                    PollResponse("", 500, "None", "None"),
                                    PollResponse("ConnectionError", 0, "None", "None")},
                                   MaxScript),
                   th \in {Pending, SlowDown}}
    /\ elapsed = 0
    /\ interval = arg.interval
    /\ i = 0
    /\ results = ""
    /\ config = None /\ period = NoPeriod /\ last_run = None
    /\ all_items = <<>> /\ rendered = <<>> /\ state_file = None /\ fetched_at = None
    /\ repo_list = <<>> /\ report_data = None /\ pr_commit_shas = {}
    /\ env = None /\ exit_code = "None" /\ trace = <<>> /\ token_file = None

\* "if time.time() - start_time > expires_in: raise GitHubOAuthError(...)"
Poll_Expired ==
    /\ prog = "poll_for_token" /\ pc = "loop"
    /\ elapsed > arg.expires_in
    /\ pc' = "raised"
    /\ results' = "Device flow expired. Please try again."
    /\ UNCHANGED <<inputs, poll_vars, config, last_run, i, inbox_vars, report_vars,
                   proc_vars>>

\* the rest of one iteration: the request (which takes took seconds), and
\* the return, the sleep or the raise its response leads to
Poll_Request ==
    /\ prog = "poll_for_token" /\ pc = "loop"
    /\ elapsed <= arg.expires_in
    /\ i' = i + 1
    /\ trace' = Append(trace, "request")
    /\ \E took \in {0, 1} :
          LET result == Answer(i + 1) IN
          IF result.exc # "" \/ (result.status >= 400 /\ result.status < 600)
          THEN /\ pc' = "raised" /\ results' = "Failed to poll for token"
               /\ elapsed' = elapsed + took /\ interval' = interval
          ELSE IF result.access_token # "None"
          THEN /\ pc' = "returned" /\ results' = result.access_token
               /\ elapsed' = elapsed + took /\ interval' = interval
          ELSE IF result.error \in {"authorization_pending", "slow_down"}
          THEN /\ pc' = "loop" /\ results' = results
               /\ interval' = SleepInterval(result, interval)
               /\ elapsed' = elapsed + took + interval'
          ELSE /\ pc' = "raised" /\ results' = "Authorization failed"
               /\ elapsed' = elapsed + took /\ interval' = interval
    /\ UNCHANGED <<inputs, config, last_run, inbox_vars, report_vars, exit_code,
                   token_file>>

SpecPoll == InitPoll /\ [][Poll_Expired \/ Poll_Request]_vars

\* the loop goes on as long as the process runs and every request is
\* answered
SpecPollFair == SpecPoll /\ WF_vars(Poll_Expired \/ Poll_Request)

SpecCommands ==
    /\ InitInbox \/ InitMain
    /\ [][NextInbox \/ Main_Report \/ Report_Collect \/ Report_Output]_vars

SpecStrategies ==
    /\ \/ InitFullWatch \/ InitMention \/ InitMaintainer
       \/ InitStrategy("AuthoredActivityStrategy.run", AuthoredWebs)
    /\ [][\/ NextFullWatch \/ Mention_Run \/ NextMaintainer
          \/ Strategy_Begin("AuthoredActivityStrategy.run", EmptyAuthored)
          \/ Authored_Iter
          \/ Strategy_Return("AuthoredActivityStrategy.run")]_vars

----------------------------------------------------------------------------
(* Properties of the reports *)

HasReport ==
    /\ prog \in {"collect_data_graphql", "collect_github_data"}
    /\ report_data # None /\ report_data.data # None

\* the pull requests the server holds, as (url, merge timestamp present,
\* state is closed)
SourcePullRequests ==
    IF prog = "collect_data_graphql"
    THEN {[url |-> n.url, merged |-> n.mergedAt # None, closed |-> n.state = "CLOSED"] :
             n \in UNION {Range(web.repo[k].data.pullRequests) :
                             k \in {x \in DOMAIN web.repo : web.repo[x].data # None}}}
    ELSE {[url |-> n.html_url, merged |-> n.merged_at # None,
           closed |-> n.state = "closed"] :
             n \in {x \in Range(web.db) : x.kind = "pr"}}

ExpectedStatus(src) ==
    IF src.merged THEN "merged" ELSE IF src.closed THEN "closed" ELSE "open"

\* C6: every authored pull request of a report has the status "merged" when
\* its merge timestamp is present (whatever its state), "closed" when the
\* timestamp is absent and the state is closed, and "open" otherwise; this
\* holds for collect_data_graphql and for collect_github_data.
C6_PullRequestStatus ==
    HasReport =>
        \A k \in DOMAIN report_data.data.contributions.pull_requests :
            LET e == report_data.data.contributions.pull_requests[k] IN
            /\ e.status \in {"merged", "closed", "open"}
            /\ \A src \in SourcePullRequests :
                  src.url = e.url => e.status = ExpectedStatus(src)

\* C6 witness: a report lists a pull request as merged whose state is closed,
\* and an open one beside it
C6_Witness ==
    /\ HasReport /\ pc = "done"
    /\ \E k \in DOMAIN report_data.data.contributions.pull_requests :
          /\ report_data.data.contributions.pull_requests[k].status = "merged"
          /\ \E src \in SourcePullRequests :
                /\ src.url = report_data.data.contributions.pull_requests[k].url
                /\ src.merged /\ src.closed
    /\ \E k \in DOMAIN report_data.data.contributions.pull_requests :
          report_data.data.contributions.pull_requests[k].status = "open"

\* the pull requests the search of collect_github_data fetched for the
\* period, and the SHAs in the commit lists the API gave for them
FetchedPullRequests ==
    Range(run_search_for_repos(
              Query("pr", FALSE, "author", Username, "created"), arg.repos))

FetchedPullRequestShas ==
    UNION {{pr.commits[k].sha : k \in DOMAIN pr.commits} :
              pr \in {x \in FetchedPullRequests : ~ x.commits_fail}}

WipListed ==
    /\ prog = "collect_github_data"
    /\ pc \in {"reviews", "closed_prs", "engagement", "issues_closed", "done"}
    /\ report_data.data # None

\* C7: in collect_github_data no commit whose SHA is in the commit list of a
\* pull request fetched for the period appears in contributions.commits.
C7_NoPullRequestCommitInWip ==
    WipListed =>
        \A c \in Range(web.commit_db) :
            c.sha \in FetchedPullRequestShas =>
                \A k \in DOMAIN report_data.data.contributions.commits :
                    report_data.data.contributions.commits[k].url # c.html_url

MaintainerBuckets == {"prs_reviewed", "prs_closed_merged", "issues_engaged", "issues_closed"}

MaintainerRunning ==
    prog = "MaintainerActivityStrategy.run" /\ pc \in {"loop", "done"}

\* no item of a bucket of MaintainerActivityStrategy.run is by the user
StrategyBucketsClean ==
    \A b \in MaintainerBuckets :
        \A k \in DOMAIN results[b] : results[b][k].author # config.username

RestReporting == prog = "collect_github_data" /\ report_data # None /\ report_data.data # None

\* the entry of a report names an item the requesting user wrote
RestAuthored(e) ==
    \E item \in Range(web.db) : item.html_url = e.url /\ item.user = Username

RestBucketClean(b) ==
    \A k \in DOMAIN report_data.data.maintainer_work[b] :
        ~ RestAuthored(report_data.data.maintainer_work[b][k])

----------------------------------------------------------------------------
(* Properties of the four strategies *)

Parses(repo_fullname) == Len(split(repo_fullname)) = 2

\* the client answers the repository query of the entry with None
ClientNull(repo_fullname) ==
    /\ Parses(repo_fullname)
    /\ execute(RepoOutcome(split(repo_fullname)[1], split(repo_fullname)[2])).value = None

\* the configuration without the entries that do not parse and, for the
\* strategies that query each repository, without those answered with None
Kept(repos) == SelectSeq(repos, LAMBDA r : Parses(r) /\ ~ ClientNull(r))
KeptParsing(repos) == SelectSeq(repos, LAMBDA r : Parses(r))

StrategyDone(name) == prog = name /\ pc = "done"

\* C10: each of the four strategies skips an entry that does not parse as
\* owner/name or whose query the client answers with None, and returns what
\* the same run returns with those entries removed from the configuration.
C10_SkippedEntriesChangeNothing ==
    /\ StrategyDone("FullWatchStrategy.run") =>
          results = FullWatchRun(Kept(config.watch_all))
    /\ StrategyDone("AuthoredActivityStrategy.run") =>
          results = AuthoredRun(Kept(repo_list), config.username)
    /\ StrategyDone("MaintainerActivityStrategy.run") =>
          results = MaintainerRun(Kept(repo_list), config.username)
    /\ StrategyDone("MentionWatchStrategy.run") =>
          results = MentionRun(KeptParsing(config.watch_mentions), config.username)

----------------------------------------------------------------------------
(* Properties of run_inbox: the state file, the exits, the two strategies  *)

InboxRun == prog = "run_inbox"

\* the places of an entry in the trace
Positions(x) == {k \in DOMAIN trace : trace[k] = x}

\* C11: an inbox run reads the last-run state at most once and before any
\* API request, exactly once when it completes; it writes the state at most
\* once, in its last step, after both strategies have run and their merged
\* result has been rendered; the state file changes in no other step, so a
\* run that exits or raises earlier leaves it as it was.
C11_StateReadFirstWrittenLast ==
    /\ [](InboxRun =>
            /\ Cardinality(Positions("read_state")) <= 1
            /\ Cardinality(Positions("write_state")) <= 1
            /\ \A q \in Positions("request") :
                  \E r \in Positions("read_state") : r < q
            /\ \A w \in Positions("write_state") :
                  /\ pc = "done"
                  /\ \E r \in Positions("render") : r < w
                  /\ \A q \in Positions("request") : q < w
                  /\ all_items = FullWatchRun(config.watch_all)
                                    \o MentionRun(config.watch_mentions, config.username)
                  /\ rendered = Render(all_items)
            /\ pc = "done" => Cardinality(Positions("read_state")) = 1
            /\ pc = "exited" => Positions("write_state") = {})
    /\ [][InboxRun /\ state_file' # state_file
             => pc = "update_state" /\ pc' = "done"]_vars

\* C11 witness: a completed run that read the state, sent two requests or
\* more, rendered, and then replaced the state it had read
C11_Witness ==
    /\ InboxRun /\ pc = "done"
    /\ Cardinality(Positions("request")) >= 2
    /\ Positions("read_state") = {1}
    /\ Positions("write_state") = {Len(trace)}
    /\ state_file.last_run \in Clock
    /\ state_file.last_run # last_run

\* C12: whatever the state file holds other than a JSON object with the
\* timestamp (nothing, an unreadable file, no JSON, an object without the
\* key, a JSON value that is no object), get_last_run returns the timestamp
\* 24 hours before now, and the run that read it does not fail.
C12_AnyStateFileIsNoPriorState ==
    (/\ InboxRun /\ pc # "done"
     /\ Positions("read_state") # {}
     /\ ~ (state_file.kind = "object" /\ state_file.has_last_run))
    => /\ \E now \in Clock : last_run = Iso(now.date - 1, now.tod, now.us, "+00:00")
       /\ exit_code \notin {"AttributeError", "TypeError"}

\* C17: an inbox run configured with a non-empty watch_mentions and no
\* username ends with a nonzero exit code and a message on the error stream.
C17_MissingUsernameIsFatal ==
    (/\ InboxRun /\ exit_code # "None"
     /\ config.watch_mentions # <<>> /\ NoUsername(config.username))
    => exit_code # "0" /\ Positions("stderr") # {}

\* every repository request FullWatchStrategy sent has failed (one at least)
FullWatchFails ==
    /\ \E r \in Range(config.watch_all) : WellFormed(r)
    /\ \A r \in Range(config.watch_all) : WellFormed(r) => ~ Fetched(r)

\* the search request of MentionWatchStrategy was sent and has failed
SearchFails ==
    /\ config.watch_mentions # <<>> /\ ~ NoUsername(config.username)
    /\ web.search.fail # ""

\* what the search holds for the run: the items of the watched repositories
\* updated after the second of the watermark
SearchHits ==
    {n \in Range(web.search.items) :
        /\ n.repo \in Range(config.watch_mentions)
        /\ StrictlyAfter(n.updatedAt, Iso(last_run.date, last_run.tod, 0, "Z"))}

\* C18: in an inbox run in which every request of FullWatchStrategy fails,
\* the items the search answers to MentionWatchStrategy are rendered; in a
\* run in which the search fails, the new items FullWatchStrategy fetched
\* are rendered; and a run that has sent a request ends with exit code 0.
C18_StrategyFailuresStayLocal ==
    /\ InboxRendered =>
          /\ (FullWatchFails /\ ~ NoUsername(config.username) /\ web.search.fail = "")
                => \A n \in SearchHits : n.url \in Urls(rendered)
          /\ SearchFails
                => \A f \in FetchedNodes :
                      StrictlyAfter(f[3].updatedAt, last_run) => f[3].url \in Urls(rendered)
    /\ (InboxRun /\ Positions("request") # {} /\ exit_code # "None") => exit_code = "0"

\* C18 witness: a completed run, exit code 0, whose repository requests all
\* failed and whose table shows what the search returned
C18_Witness ==
    /\ InboxRun /\ pc = "done" /\ exit_code = "0"
    /\ FullWatchFails
    /\ SearchHits # {}
    /\ Urls(rendered) = {n.url : n \in SearchHits}

\* the place of the first item of the merged list that has the url
FirstPlace(u) ==
    CHOOSE k \in DOMAIN all_items :
        all_items[k].url = u /\ \A j \in 1..(k - 1) : all_items[j].url # u

\* C19: of two rows of the table, the earlier one is of a repository that
\* sorts before the other's, or both are of one repository and the earlier
\* one was not updated after the later one; rows of one repository updated
\* at the same instant stand in the order in which their items first came
\* in the list handed to the renderer.
C19_ByRepositoryThenUpdateTime ==
    InboxRendered =>
        \A k, l \in DOMAIN rendered :
            k < l =>
               \/ StrLess(rendered[k].repo, rendered[l].repo)
               \/ /\ rendered[k].repo = rendered[l].repo
                  /\ ~ StrictlyAfter(rendered[k].updatedAt, rendered[l].updatedAt)
                  /\ SameInstant(rendered[k].updatedAt, rendered[l].updatedAt)
                        => FirstPlace(rendered[k].url) < FirstPlace(rendered[l].url)

\* C19 witness: a table of two repositories; the list handed over had the
\* second repository first and, within a repository, a later item before an
\* earlier one; two rows of one repository have the same update time
C19_Witness ==
    /\ InboxRendered
    /\ \E k, l \in DOMAIN all_items :
          k < l /\ StrLess(all_items[l].repo, all_items[k].repo)
    /\ \E k, l \in DOMAIN all_items :
          /\ k < l /\ all_items[k].repo = all_items[l].repo
          /\ StrictlyAfter(all_items[k].updatedAt, all_items[l].updatedAt)
    /\ \E k, l \in DOMAIN rendered :
          /\ k < l /\ rendered[k].repo = rendered[l].repo
          /\ SameInstant(rendered[k].updatedAt, rendered[l].updatedAt)

----------------------------------------------------------------------------
(* Properties of the report command *)

MainRun == prog = "main report"

\* the command has ended, by returning, by sys.exit or by an exception
MainEnded == MainRun /\ exit_code # "None"

\* collect_data_graphql has returned a report
MainCollected == MainRun /\ report_data # None /\ report_data.data # None

\* C13: the report command never reads the last-run state (no step of it
\* reads the file, the watermark stays unset) and never writes it: no step
\* changes the state file, however the command ends.
C13_ReportLeavesStateAlone ==
    /\ [](MainRun => /\ last_run = None
                     /\ Positions("read_state") = {}
                     /\ Positions("write_state") = {})
    /\ [][MainRun => state_file' = state_file]_vars

\* C13 witness: a report printed with a state file in place
C13_Witness ==
    /\ MainEnded /\ exit_code = "0"
    /\ state_file.kind = "object"
    /\ Positions("print_report") # {}
    /\ Positions("request") # {}

\* the narrative step of the run fails: no library, no key, the client
\* cannot be built, the call fails, or the response has no text
NarrativeFails ==
    \/ ~ env.GENAI_AVAILABLE
    \/ env.GEMINI_API_KEY \in {"", "None"}
    \/ env.genai \in {"client_raises", "call_raises", "empty"}

\* C14: a report with narrative whose narrative step fails ends normally,
\* with the structured report printed and the notice printed after it.
C14_NarrativeFailureFallsBack ==
    (MainEnded /\ MainCollected /\ arg.narrative /\ NarrativeFails)
    => /\ exit_code = "0"
       /\ \E k \in Positions("print_report") : k + 1 \in Positions("print_notice")

\* the items MaintainerActivityStrategy yields for the repositories and the
\* period of the report, as (bucket, url)
MaintainerYield ==
    LET yield == MaintainerRun(repo_list, report_data.data.username) IN
    UNION {{<<b, yield[b][k].url>> : k \in DOMAIN yield[b]} : b \in MaintainerBuckets}

\* C15: every item MaintainerActivityStrategy yields for the repositories
\* and the period of the report is in the maintainer_work bucket of the same
\* name of the ReportData the report command has built.
C15_ReportHoldsMaintainerWork ==
    MainCollected =>
        \A y \in MaintainerYield :
            \E k \in DOMAIN report_data.data.maintainer_work[y[1]] :
                report_data.data.maintainer_work[y[1]][k].url = y[2]

\* C16: without GITHUB_TOKEN (unset or empty) the inbox and the report
\* command get no further than their first step: they send no request, do
\* not write the state file, and when they have ended the exit code is 1.
C16_NoTokenNoRequest ==
    ((InboxRun \/ MainRun) /\ env.GITHUB_TOKEN \in {"", "None"})
    => /\ pc \in {"setup", "start", "exited"}
       /\ Positions("request") = {}
       /\ Positions("write_state") = {}
       /\ pc = "exited" => exit_code = "1"

\* C16 witness: a command with repositories to work on and a state file in
\* place that has exited with 1 for want of a token
C16_Witness ==
    /\ InboxRun \/ (MainRun /\ ReportRepos # <<>>)
    /\ env.GITHUB_TOKEN = "None"
    /\ state_file.kind = "object"
    /\ pc = "exited" /\ exit_code = "1"

----------------------------------------------------------------------------
(* Properties of save_token *)

\* C20: whenever the token file holds the token save_token was given, its
\* permission bits are read and write for the owner and nothing else.
C20_TokenFileOwnerOnly ==
    (prog = "save_token" /\ token_file.exists /\ token_file.token = arg.token)
    => token_file.mode = OwnerOnly

----------------------------------------------------------------------------
(* Claims on the merged inbox list *)

\* the place of the last occurrence of the url u in the list items
LastPlace(items, u) ==
    CHOOSE k \in DOMAIN items :
        /\ items[k].url = u
        /\ \A j \in DOMAIN items : items[j].url = u => j <= k

\* C21: when a url occurs more than once in the merged list, the row of the
\* table is the last occurrence in merge order, whole (type tag and fields
\* of that occurrence, nothing of an earlier one); a url MentionWatchStrategy
\* returned is shown as MentionWatchStrategy returned it.
C21_LastOccurrenceIsKept ==
    InboxRendered =>
        /\ \A u \in Urls(all_items) :
              \A k \in DOMAIN rendered :
                 rendered[k].url = u => rendered[k] = all_items[LastPlace(all_items, u)]
        /\ \A u \in Urls(results) :
              \E k \in DOMAIN rendered : rendered[k] = results[LastPlace(results, u)]

\* C21 witness: FullWatchStrategy returned w1 as it was at its request,
\* MentionWatchStrategy returned it with a later updatedAt, and the table
\* holds the later copy
C21_Witness ==
    /\ InboxRendered
    /\ \E a, b \in DOMAIN all_items :
          /\ a < b /\ all_items[a].url = all_items[b].url
          /\ all_items[a] # all_items[b]
          /\ b = LastPlace(all_items, all_items[b].url)
          /\ \E k \in DOMAIN results : results[k] = all_items[b]
          /\ \E k \in DOMAIN rendered : rendered[k] = all_items[b]

\* C22: every item MentionWatchStrategy.run returns has an updatedAt
\* strictly after the watermark the strategy was constructed with, for every
\* watermark (with a sub-second part, with an offset other than UTC), and
\* the strategy sends one search at most.
C22_MentionItemsAfterWatermark ==
    StrategyDone("MentionWatchStrategy.run") =>
        /\ \A k \in DOMAIN results : StrictlyAfter(results[k].updatedAt, last_run)
        /\ Len(trace) <= 1

----------------------------------------------------------------------------
(* Claims on the report strategies *)

\* the instant of a createdAt lies on a UTC day of the report window
InWindow(stamp) ==
    /\ stamp # None /\ stamp # EmptyStr
    /\ period.start_date.ymd <= UtcDate(stamp)
    /\ UtcDate(stamp) <= period.end_date.ymd

\* the entries of repo_list a report strategy has fetched
FetchedByReport ==
    IF NoUsername(config.username) THEN {}
    ELSE {r \in Range(repo_list) : Fetched(r)}

\* C23: AuthoredActivityStrategy.run returns exactly the fetched pull
\* requests whose author login is the configured username and whose
\* createdAt is inside the report window, each once (never one without an
\* author), and only issues whose createdAt is inside the window.
C23_AuthoredByUserInWindow ==
    StrategyDone("AuthoredActivityStrategy.run") =>
        /\ \A r \in FetchedByReport :
              \A n \in Range(ListOf(r, "pullRequests")) :
                 Count(results.pull_requests, n) =
                    IF /\ n.author # "None" /\ n.author = config.username
                       /\ InWindow(n.createdAt)
                    THEN 1 ELSE 0
        /\ Range(results.pull_requests) \subseteq
              UNION {Range(ListOf(r, "pullRequests")) : r \in FetchedByReport}
        /\ \A k \in DOMAIN results.issues : InWindow(results.issues[k].createdAt)

\* C23 witness: of the pull requests fetched from acme/widgets, the one
\* without an author is left out and the one alice opened in the window is
\* returned, beside an issue
C23_Witness ==
    /\ StrategyDone("AuthoredActivityStrategy.run")
    /\ RepoW \in FetchedByReport
    /\ \E n, m \in Range(ListOf(RepoW, "pullRequests")) :
          /\ n.author = "None" /\ InWindow(n.createdAt)
          /\ n \notin Range(results.pull_requests)
          /\ m.author = config.username
          /\ m \in Range(results.pull_requests)
    /\ results.issues # <<>>

\* the item is not authored by the configured user
NotOwn(n) == ~ (n.author # "None" /\ n.author = config.username)

\* one of the records (reviews, events) carries the user's login and a
\* createdAt inside the window
UserActedInWindow(records, who) ==
    \E k \in DOMAIN records :
        /\ who[k] # "None" /\ who[k] = config.username
        /\ InWindow(records[k].createdAt)

Reviewers(n) == [k \in DOMAIN n.reviews |-> n.reviews[k].author]
Actors(n) == [k \in DOMAIN n.timelineItems |-> n.timelineItems[k].actor]

\* C24: in MaintainerActivityStrategy.run a fetched pull request the user
\* did not author is in prs_reviewed exactly when one of its reviews has the
\* user's login and a createdAt inside the window, and in prs_closed_merged
\* (an issue: in issues_closed) exactly when one of its close or merge events
\* has the user as actor and a createdAt inside the window; it is there once,
\* however many reviews or events match.
C24_ReviewAndCloseAttribution ==
    StrategyDone("MaintainerActivityStrategy.run") =>
        \A r \in FetchedByReport :
           /\ \A n \in Range(ListOf(r, "pullRequests")) :
                 NotOwn(n) =>
                    /\ Count(results.prs_reviewed, n) =
                          IF UserActedInWindow(n.reviews, Reviewers(n)) THEN 1 ELSE 0
                    /\ Count(results.prs_closed_merged, n) =
                          IF UserActedInWindow(n.timelineItems, Actors(n)) THEN 1 ELSE 0
           /\ \A n \in Range(ListOf(r, "issues")) :
                 NotOwn(n) =>
                    Count(results.issues_closed, n) =
                       IF UserActedInWindow(n.timelineItems, Actors(n)) THEN 1 ELSE 0

\* C24 witness: a pull request of bob with two reviews and two merge events
\* of alice inside the window is once in prs_reviewed and once in
\* prs_closed_merged
C24_Witness ==
    /\ StrategyDone("MaintainerActivityStrategy.run")
    /\ RepoW \in FetchedByReport
    /\ \E n \in Range(ListOf(RepoW, "pullRequests")) :
          /\ NotOwn(n)
          /\ Cardinality({k \in DOMAIN n.reviews :
                             /\ n.reviews[k].author = config.username
                             /\ InWindow(n.reviews[k].createdAt)}) >= 2
          /\ Cardinality({k \in DOMAIN n.timelineItems :
                             /\ n.timelineItems[k].actor = config.username
                             /\ InWindow(n.timelineItems[k].createdAt)}) >= 2
          /\ Count(results.prs_reviewed, n) = 1
          /\ Count(results.prs_closed_merged, n) = 1

\* C25: MaintainerActivityStrategy.run puts an issue in issues_engaged only
\* if the user commented on it inside the window; an issue whose only
\* comments of the user lie outside the window is not reported as engaged,
\* whatever its updatedAt is.
C25_EngagedOnlyByCommentInWindow ==
    StrategyDone("MaintainerActivityStrategy.run") =>
        \A k \in DOMAIN results.issues_engaged :
           UserActedInWindow(results.issues_engaged[k].comments,
                             [j \in DOMAIN results.issues_engaged[k].comments |->
                                 results.issues_engaged[k].comments[j].author])

----------------------------------------------------------------------------
(* Claims on collect_github_data *)

\* the issues the search of collect_github_data fetched for the period
FetchedIssues ==
    Range(run_search_for_repos(
              Query("issue", FALSE, "author", Username, "created"), arg.repos))

\* C26: in the ReportData of collect_github_data, contributions.pull_requests
\* and contributions.issues hold exactly one entry for each distinct
\* (repository, number) pair among the search results, so that two authored
\* pull requests with the same number in two repositories both appear.
C26_OneEntryPerRepositoryAndNumber ==
    (/\ prog = "collect_github_data" /\ report_data # None /\ report_data.data # None
     /\ pc \notin {"start", "prs", "issues"}) =>
        /\ \A pr \in FetchedPullRequests :
              Cardinality({k \in DOMAIN report_data.data.contributions.pull_requests :
                  report_data.data.contributions.pull_requests[k].url = pr.html_url}) = 1
        /\ Len(report_data.data.contributions.pull_requests) =
              Cardinality({<<pr.repo, pr.number>> : pr \in FetchedPullRequests})
        /\ \A issue \in FetchedIssues :
              Cardinality({k \in DOMAIN report_data.data.contributions.issues :
                  report_data.data.contributions.issues[k].url = issue.html_url}) = 1
        /\ Len(report_data.data.contributions.issues) =
              Cardinality({<<issue.repo, issue.number>> : issue \in FetchedIssues})

----------------------------------------------------------------------------
(* Claims on the requests and the watermark of run_inbox *)

\* the requests the run has sent so far
RequestsSent == Cardinality(Positions("request"))

\* the requests an inbox run sends: RepositoryCalls for FullWatchStrategy,
\* counted per entry or per distinct repository, one more at most for the
\* search
RequestsAsClaimed(RepositoryCalls) ==
    InboxRun =>
        /\ pc \in {"setup", "get_last_run", "strategy_a", "exited"} => RequestsSent = 0
        /\ pc = "strategy_b" => RequestsSent = RepositoryCalls
        /\ pc \in {"render", "update_state", "done"} =>
              /\ RequestsSent \in {RepositoryCalls, RepositoryCalls + 1}
              /\ RequestsSent = RepositoryCalls + 1
                    <=> (config.watch_mentions # <<>> /\ ~ NoUsername(config.username))

SomeRequestFailed ==
    \/ \E r \in Range(config.watch_all) : ClientNull(r)
    \/ SearchFails

\* C28: the watermark is updated only if the run fetched everything: when
\* the client returned None for a repository or for the mention search, the
\* run does not write the last-run state.
C28_FailedFetchKeepsWatermark ==
    (InboxRun /\ SomeRequestFailed) => Positions("write_state") = {}

\* what the next run does with an item updated at u: it reads the state
\* file this run wrote and keeps the item if _is_new holds for the watermark
\* found there
NextRunReturns(u) == DtGreater(isoparse(u), isoparse(state_file.last_run))

\* C29: the watermark a successful run persists is not later than the
\* instant at which the run fetched, so that an item updated after the fetch
\* (and before the state write) is returned by the next run.
C29_NoActivityFallsBetweenRuns ==
    (InboxRun /\ pc = "done") =>
        /\ ~ StrictlyAfter(state_file.last_run, fetched_at)
        /\ \A u \in {Iso(3, 9 * 3600 + 1, 0, "Z"), Iso(3, 9 * 3600 + 6, 0, "Z")} :
              StrictlyAfter(u, fetched_at) => NextRunReturns(u)

----------------------------------------------------------------------------
(* Claims on poll_for_token *)

PollRun == prog = "poll_for_token"

\* the request failed: no response, or an error status
PollFailure(r) == r.exc # "" \/ r.status >= 400
\* the response contains access_token
PollToken(r) == ~ PollFailure(r) /\ r.access_token # "None"
\* the response says to go on polling
PollGoOn(r) ==
    /\ ~ PollFailure(r) /\ r.access_token = "None"
    /\ r.error \in {"authorization_pending", "slow_down"}

Expired == "Device flow expired. Please try again."

\* how the call stands after i requests, given the responses to them
PollOutcomeAsClaimed ==
    /\ \A k \in 1..(i - 1) : PollGoOn(Answer(k))
    /\ pc = "returned" <=> (i >= 1 /\ PollToken(Answer(i)))
    /\ pc = "returned" => results = Answer(i).access_token
    /\ (pc = "raised" /\ results # Expired) <=> (i >= 1 /\ ~ PollToken(Answer(i))
                                                         /\ ~ PollGoOn(Answer(i)))
    /\ (i >= 1 /\ PollFailure(Answer(i))) => results = "Failed to poll for token"
    /\ (pc = "raised" /\ results = Expired) => elapsed > arg.expires_in
    /\ RequestsSent = i

\* what one step of the call may do
PollStepAsClaimed ==
    /\ (pc = "loop" /\ elapsed > arg.expires_in)
          => (pc' = "raised" /\ results' = Expired /\ i' = i /\ trace' = trace)
    /\ pc # "loop" => (i' = i /\ trace' = trace)
    /\ interval' >= interval
    /\ (i' = i + 1 /\ pc' = "loop")
          => interval' = interval + (IF Answer(i').error = "slow_down" THEN 5 ELSE 0)

\* C30: poll_for_token always ends when every request is answered: it
\* returns the token of the first response that contains access_token, raises
\* GitHubOAuthError on a failed request and on every error but
\* authorization_pending and slow_down, raises the expiry error at the first
\* iteration that starts more than expires_in seconds after polling began and
\* sends no request after it, and its interval never decreases (slow_down
\* adds 5 seconds, authorization_pending nothing).
C30_PollForTokenEnds ==
    /\ <>(PollRun /\ pc \in {"returned", "raised"})
    /\ [](PollRun => PollOutcomeAsClaimed)
    /\ [][PollRun => PollStepAsClaimed]_vars

\* C30 witness: the server answered slow_down and the call, its interval
\* grown, ended with the expiry error after several requests
C30_Witness ==
    /\ PollRun /\ pc = "raised" /\ results = Expired
    /\ i >= 2 /\ interval >= arg.interval + 10
    /\ \E k \in 1..i : Answer(k) = Pending

====
